---- MODULE Spec2Model ----
(***************************************************************************)
(* A model of the Dockerfile builder of sdc-docker-build (lib/build.js,    *)
(* the 2016 revision kept as src/unnamed/part_004).                        *)
(*                                                                         *)
(* Representation of JavaScript values:                                    *)
(*   - a string that the code takes apart (a path, a symlink target) is a  *)
(*     sequence of one-character strings, <<"/", "a">> for '/a';           *)
(*   - a string that the code only compares or concatenates (an image id,  *)
(*     a message, an element of a Cmd array) is a TLA+ string;             *)
(*   - a value that may be null is Null or Some(v);                        *)
(*   - an image id that may be null or undefined is a TLA+ string, with    *)
(*     NullId and Undefined standing for the two non-string values.        *)
(***************************************************************************)
EXTENDS Integers, Sequences, FiniteSets, TLC

(***************************************************************************)
(* Bounds of the model.                                                    *)
(***************************************************************************)
\* Longest Dockerfile (number of instructions) the build driver is run on.
MaxSteps == 3

(***************************************************************************)
(* Shapes of instruction arguments                                         *)
(***************************************************************************)
\* The args of an instruction carry a tag t that names their JavaScript
\* shape (see Instr): Array.isArray(args) and typeof (args) === 'string'.
IsArray(args) == args.t \in {"arr", "texts"}
IsString(args) == args.t \in {"str", "text"}

(***************************************************************************)
(* null, undefined                                                         *)
(***************************************************************************)
Null == <<>>
Some(v) == <<v>>
IsNull(o) == o = <<>>
Val(o) == o[1]

NullId == "<null>"
Undefined == "<undefined>"

(***************************************************************************)
(* Strings as character sequences                                          *)
(***************************************************************************)
\* The TLA+ string spelled by a character sequence.
RECURSIVE Str(_)
Str(s) == IF s = <<>> THEN "" ELSE Head(s) \o Str(Tail(s))

\* s.slice(from) and s.slice(0, -n), 1-based from.
SliceFrom(s, from) == SubSeq(s, from, Len(s))
DropLast(s, n) == SubSeq(s, 1, Len(s) - n)

\* s.substr(0, Len(p)) === p
StartsWith(s, p) == Len(s) >= Len(p) /\ SubSeq(s, 1, Len(p)) = p

LastChar(s) == IF s = <<>> THEN "" ELSE s[Len(s)]

\* var x = v; and then what F does with x.
Let(v, F(_)) == F(v)

\* String.prototype.split('/'): the pieces between the separators, empty
\* pieces included.
RECURSIVE SplitFrom(_, _, _)
SplitFrom(s, sep, cur) ==
    IF s = <<>> THEN <<cur>>
    ELSE IF Head(s) = sep THEN <<cur>> \o SplitFrom(Tail(s), sep, <<>>)
    ELSE SplitFrom(Tail(s), sep, Append(cur, Head(s)))
Split(s, sep) == SplitFrom(s, sep, <<>>)

\* Array.prototype.join(sep) of an array of strings.
RECURSIVE JoinWith(_, _)
JoinWith(parts, sep) ==
    IF parts = <<>> THEN <<>>
    ELSE IF Len(parts) = 1 THEN parts[1]
    ELSE parts[1] \o <<sep>> \o JoinWith(Tail(parts), sep)

(***************************************************************************)
(* node's path module (posix), as the builder uses it                      *)
(***************************************************************************)
\* normalizeArray keeping every '..' that has nothing before it, whatever
\* allowAboveRoot is.
RECURSIVE normalizeArrayM(_, _, _)
normalizeArrayM(parts, allowAboveRoot, acc) ==
    IF parts = <<>> THEN acc
    ELSE IF Head(parts) = <<>> \/ Head(parts) = <<".">>
    THEN normalizeArrayM(Tail(parts), allowAboveRoot, acc)
    ELSE IF Head(parts) = <<".", ".">> /\ acc # <<>> /\ acc[Len(acc)] # <<".", ".">>
    THEN normalizeArrayM(Tail(parts), allowAboveRoot, DropLast(acc, 1))
    ELSE normalizeArrayM(Tail(parts), allowAboveRoot, Append(acc, Head(parts)))

\* normalizeArray: drops '' and '.', resolves '..' against the part before
\* it; a '..' with nothing before it is kept only when allowAboveRoot.
RECURSIVE normalizeArray(_, _, _)
normalizeArray(parts, allowAboveRoot, acc) ==
    IF parts = <<>> THEN acc
    ELSE LET p == Head(parts)
             rest == Tail(parts)
         IN IF p = <<>> \/ p = <<".">>
            THEN normalizeArray(rest, allowAboveRoot, acc)
            ELSE IF p = <<".", ".">>
            THEN IF acc # <<>> /\ acc[Len(acc)] # <<".", ".">>
                 THEN normalizeArray(rest, allowAboveRoot, DropLast(acc, 1))
                 ELSE IF allowAboveRoot
                      THEN normalizeArray(rest, allowAboveRoot, Append(acc, p))
                      ELSE normalizeArray(rest, allowAboveRoot, acc)
            ELSE normalizeArray(rest, allowAboveRoot, Append(acc, p))

\* path.normalize
pathNormalize(p) ==
    LET isAbsolute == p # <<>> /\ p[1] = "/"
        trailingSlash == LastChar(p) = "/"
    IN Let(JoinWith(normalizeArray(Split(p, "/"), ~isAbsolute, <<>>), "/"), LAMBDA body :
       Let(IF body = <<>> /\ ~isAbsolute THEN <<".">> ELSE body, LAMBDA body1 :
           (IF isAbsolute THEN <<"/">> ELSE <<>>)
              \o (IF body1 # <<>> /\ trailingSlash THEN Append(body1, "/") ELSE body1)))

\* path.join of two arguments\* path.join of two arguments: empty arguments are skipped, the rest is
\* joined with '/' and normalized.
pathJoin(a, b) ==
    LET args == SelectSeq(<<a, b>>, LAMBDA x : x # <<>>)
    IN pathNormalize(JoinWith(args, "/"))

\* The path without its trailing '/' characters (all of it when it holds
\* nothing else).
RECURSIVE StripTrailingSlashes(_)
StripTrailingSlashes(p) ==
    IF p # <<>> /\ LastChar(p) = "/" THEN StripTrailingSlashes(DropLast(p, 1)) ELSE p

\* Index of the last '/' of p, 0 when there is none.
RECURSIVE LastSlash(_)
LastSlash(p) ==
    IF p = <<>> THEN 0 ELSE IF LastChar(p) = "/" THEN Len(p) ELSE LastSlash(DropLast(p, 1))

\* path.dirname
pathDirname(p) ==
    Let(StripTrailingSlashes(p), LAMBDA q :
    Let(LastSlash(q), LAMBDA i :
        IF q = <<>> THEN (IF p = <<>> THEN <<".">> ELSE <<"/">>)
        ELSE IF i = 0 THEN <<".">>
        ELSE IF i = 1 THEN <<"/">>
        ELSE SubSeq(q, 1, i - 1)))

\* path.basename
pathBasename(p) == Let(StripTrailingSlashes(p), LAMBDA q : SliceFrom(q, LastSlash(q) + 1))

(***************************************************************************)
(* The image config and the builder object                                 *)
(***************************************************************************)
\* DEFAULT_IMAGE_CONFIG, restricted to the properties an instruction of the
\* model reads or writes, and with ExposedPorts, which it does not hold: a
\* property that is absent is Null here, addConfigArrayAsMap treating the
\* two alike.  Cmd and Entrypoint are arrays of strings, Env an
\* array of 'K=V' character strings, Labels a map, OnBuild an array of raw
\* Dockerfile lines.
DEFAULT_IMAGE_CONFIG ==
    [Cmd |-> Null, Entrypoint |-> Null, Env |-> Null, ExposedPorts |-> Null, Image |-> "",
     Labels |-> Null, OnBuild |-> Null, User |-> "", Volumes |-> Null, WorkingDir |-> <<>>]

\* DEFAULT_ARG_NAMES
DEFAULT_ARG_NAMES ==
    <<"HTTP_PROXY", "HTTPS_PROXY", "FTP_PROXY", "NO_PROXY",
      "http_proxy", "https_proxy", "ftp_proxy", "no_proxy">>

\* A JavaScript object used as a map is the sequence of its <<key, value>>
\* pairs in insertion order, which is the order Object.keys gives.
RECURSIVE Keys(_)
Keys(m) == IF m = <<>> THEN <<>> ELSE <<Head(m)[1]>> \o Keys(Tail(m))
KeySet(m) == {m[i][1] : i \in 1..Len(m)}
Has(m, k) == k \in KeySet(m)
Get(m, k) == m[CHOOSE i \in 1..Len(m) : m[i][1] = k][2]
\* m[k] = v
Put(m, k, v) ==
    IF Has(m, k) THEN [i \in 1..Len(m) |-> IF m[i][1] = k THEN <<k, v>> ELSE m[i]]
    ELSE Append(m, <<k, v>>)
\* delete m[k]
Del(m, k) == SelectSeq(m, LAMBDA e : e[1] # k)
EmptyMap == <<>>
\* Object.keys(from).forEach(function (key) { to[key] = from[key]; })
RECURSIVE Merge(_, _)
Merge(to, from) ==
    IF from = <<>> THEN to ELSE Merge(Put(to, Head(from)[1], Head(from)[2]), Tail(from))
\* The map as a function of its keys: what jsprim.deepEqual compares, which
\* does not look at the order of the keys.
AsFun(m) == [k \in KeySet(m) |-> Get(m, k)]

\* addArgEntry leaving the name among the build-args of the command line.
addArgEntryM(b, name, value) ==
    LET fromCli == Has(b.cliBuildArgs, name)
        v == IF fromCli THEN Get(b.cliBuildArgs, name) ELSE value
    IN [b EXCEPT
          !.buildArgs = IF fromCli \/ ~IsNull(value) THEN Put(@, name, v) ELSE @,
          !.buildArgsPlusDefaults = Put(@, name, v)]

\* Builder.prototype.addArgEntry, on the builder object b.
addArgEntry(b, name, value) ==
    LET fromCli == Has(b.cliBuildArgs, name)
        v == IF fromCli THEN Get(b.cliBuildArgs, name) ELSE value
    IN [b EXCEPT
          !.cliBuildArgs = IF fromCli THEN Del(@, name) ELSE @,
          !.buildArgs = IF fromCli \/ ~IsNull(value) THEN Put(@, name, v) ELSE @,
          !.buildArgsPlusDefaults = Put(@, name, v)]

RECURSIVE addDefaultArgs(_, _)
addDefaultArgs(b, names) ==
    IF names = <<>> THEN b
    ELSE addDefaultArgs(addArgEntry(b, Head(names), Null), Tail(names))

\* function Builder(opts): the builder object right after construction.
\* configRef and ccRef record which object image.config and
\* image.container_config are: 0 for an object of the builder's own, k for
\* the Config (ContainerConfig) object of existingImages[k], which the
\* builder then shares with its caller.
Builder(opts) ==
    addDefaultArgs(
      [commandType |-> opts.commandType,
       cliBuildArgs |-> opts.buildargs,
       cliLabels |-> opts.labels,
       existingImages |-> opts.existingImages,
       cacheEnabled |-> ~opts.nocache,
       cacheLastCmdCached |-> TRUE,
       layers |-> <<>>,
       stepNo |-> -1,
       totalNumSteps |-> 0,
       cmdSet |-> FALSE,
       buildArgs |-> EmptyMap,
       buildArgsPlusDefaults |-> EmptyMap,
       onBuildTriggers |-> Null,
       image |-> [id |-> Undefined, parent |-> NullId, author |-> "",
                  config |-> DEFAULT_IMAGE_CONFIG,
                  container_config |-> Null],
       configRef |-> 0,
       ccRef |-> 0,
       uuids |-> 0,
       emitted |-> <<>>],
      DEFAULT_ARG_NAMES)

\* Assignment to a property of image.config: it reaches the candidate's
\* Config object when image.config is that object, and the candidate's
\* ContainerConfig and image.container_config when those are that one
\* object too.
setConfig(b, c) ==
    IF b.configRef = 0 THEN [b EXCEPT !.image.config = c]
    ELSE IF ~b.existingImages[b.configRef].sameObject
    THEN [b EXCEPT !.image.config = c, !.existingImages[b.configRef].Config = c]
    ELSE [b EXCEPT !.image.config = c,
                   !.image.container_config = IF b.ccRef = b.configRef THEN Some(c) ELSE @,
                   !.existingImages[b.configRef].Config = c,
                   !.existingImages[b.configRef].ContainerConfig = c]

\* Assignment to a property of image.container_config, likewise.
setContainerConfig(b, c) ==
    IF b.ccRef = 0 THEN [b EXCEPT !.image.container_config = Some(c)]
    ELSE IF ~b.existingImages[b.ccRef].sameObject
    THEN [b EXCEPT !.image.container_config = Some(c),
                   !.existingImages[b.ccRef].ContainerConfig = c]
    ELSE [b EXCEPT !.image.container_config = Some(c),
                   !.image.config = IF b.configRef = b.ccRef THEN c ELSE @,
                   !.existingImages[b.ccRef].Config = c,
                   !.existingImages[b.ccRef].ContainerConfig = c]

\* Builder.prototype.setImageId with an id.
setImageId(b, id) == [b EXCEPT !.image.id = id]

\* Builder.prototype.setImageId without one: two fresh uuids.
newImageId(b) == "id" \o ToString(b.uuids + 1)
setNewImageId(b) == [b EXCEPT !.image.id = newImageId(b), !.uuids = @ + 1]

\* Builder.prototype.setParentId
setParentId(b, id) ==
    LET b1 == setConfig([b EXCEPT !.image.parent = id],
                        [b.image.config EXCEPT !.Image = id])
    IN IF IsNull(b1.image.container_config) THEN b1
       ELSE setContainerConfig(b1, [Val(b1.image.container_config) EXCEPT !.Image = id])

\* Builder.prototype.getShortId: the first 12 characters; the ids of the
\* model are shorter than that.
getShortId(id) == IF id = NullId \/ id = Undefined THEN "" ELSE id

\* An event the builder emits: ev is the name it is emitted under, type and
\* message are the event's.  extractDir is that of an extract_tarfile task;
\* step is the number N of a 'Step N : ...' message, and 0 in every other
\* event.
Event(ev, type, message) ==
    [ev |-> ev, type |-> type, message |-> message, extractDir |-> <<>>, step |-> 0,
     env |-> <<>>, workdir |-> <<>>, user |-> ""]

\* Builder.prototype.emitStdout
emitStdout(b, message) ==
    IF b.commandType = "commit" THEN b
    ELSE [b EXCEPT !.emitted = Append(@, Event("message", "stdout", message))]

\* storeImageLayer without the deep copy: every stored layer holds the
\* builder's one image object, and so its current value.
storeImageLayerM(b, cmd) ==
    [b EXCEPT !.layers = [i \in 1..(Len(@) + 1) |->
                             [cmd |-> IF i <= Len(@) THEN @[i].cmd ELSE cmd,
                              image |-> b.image]]]

\* Builder.prototype.storeImageLayer: the layer holds a deep copy of the
\* builder's image.
storeImageLayer(b, cmd) ==
    [b EXCEPT !.layers = Append(@, [cmd |-> cmd, image |-> b.image])]

\* Builder.prototype.isLastStep
isLastStep(b) == b.stepNo = b.totalNumSteps - 1

\* Builder.prototype.isCachingAllowed
isCachingAllowedM(b) == b.cacheEnabled
isCachingAllowed(b) == b.cacheEnabled /\ b.cacheLastCmdCached

(***************************************************************************)
(* Instructions                                                            *)
(***************************************************************************)
\* An instruction as docker-file-parser gives it, {name, args, raw}, plus the
\* ctx the builder adds.  args is tagged with its JavaScript shape:
\*   "str"   a string the builder never takes apart (a TLA+ string)
\*   "text"  a string the builder takes apart (a character sequence)
\*   "arr"   an array of "str" strings
\*   "texts" an array of "text" strings
\*   "obj"   an object (a map with "text" values)
\*   "cmd"   the instruction object that follows ONBUILD
Instr(name, t, v, raw) ==
    [name |-> name, args |-> [t |-> t, v |-> v], raw |-> raw,
     ctx |-> [isCached |-> FALSE, copyInfos |-> <<>>]]


\* Array.prototype.join(sep) where the result is only compared or printed.
RECURSIVE JoinStr(_, _)
JoinStr(parts, sep) ==
    IF parts = <<>> THEN ""
    ELSE IF Len(parts) = 1 THEN parts[1]
    ELSE parts[1] \o sep \o JoinStr(Tail(parts), sep)

RECURSIVE MapStr(_)
MapStr(texts) == IF texts = <<>> THEN <<>> ELSE <<Str(Head(texts))>> \o MapStr(Tail(texts))

RECURSIVE KeyValStrings(_)
KeyValStrings(m) ==
    IF m = <<>> THEN <<>>
    ELSE <<Head(m)[1] \o "=" \o Str(Head(m)[2])>> \o KeyValStrings(Tail(m))

\* fixShellCommandArguments
fixShellCommandArguments(cmd) ==
    IF IsString(cmd.args)
    THEN [cmd EXCEPT !.args = [t |-> "arr",
                               v |-> <<"/bin/sh", "-c",
                                       IF cmd.args.t = "text" THEN Str(cmd.args.v)
                                       ELSE cmd.args.v>>]]
    ELSE cmd

\* getCommandString
getCommandString(cmd) ==
    LET a == cmd.args
        argString == CASE a.t = "arr" -> JoinStr(a.v, " ")
                       [] a.t = "texts" -> JoinStr(MapStr(a.v), " ")
                       [] a.t = "obj" -> JoinStr(KeyValStrings(a.v), " ")
                       [] a.t = "text" -> Str(a.v)
                       [] a.t = "cmd" -> "name=" \o a.v.name \o " args=" \o a.v.args
                                            \o " raw=" \o a.v.raw
                       [] OTHER -> a.v
    IN cmd.name \o " " \o argString

\* crypto's sha256 of a string, as a hex digest: an injective function of
\* the string.
sha256(str) == "sha256(" \o str \o ")"

RECURSIVE Hashes(_)
Hashes(copyInfos) ==
    IF copyInfos = <<>> THEN <<>> ELSE <<Head(copyInfos).hash>> \o Hashes(Tail(copyInfos))

\* generateHashForCopyInfos
generateHashForCopyInfos(copyInfos) ==
    IF Len(copyInfos) > 1
    THEN "multi:" \o sha256(JoinStr(Hashes(copyInfos), ","))
    ELSE copyInfos[1].hash

RECURSIVE ArgEntries(_, _)
ArgEntries(keys, args) ==
    IF keys = <<>> THEN <<>>
    ELSE <<Head(keys) \o "=" \o Str(Val(Get(args, Head(keys))))>> \o ArgEntries(Tail(keys), args)

RECURSIVE Quoted(_)
Quoted(arr) == IF arr = <<>> THEN <<>> ELSE <<"\"" \o Head(arr) \o "\"">> \o Quoted(Tail(arr))

\* Builder.prototype.getNopCmdForCommand
getNopCmdForCommand(b, cmd) ==
    LET cmdString == getCommandString(cmd)
        keys == SelectSeq(Keys(b.buildArgs), LAMBDA arg : ~IsNull(Get(b.buildArgs, arg)))
        cmdArray == IF Len(keys) > 0
                    THEN <<"|" \o ToString(Len(keys))>> \o ArgEntries(keys, b.buildArgs)
                    ELSE <<>>
    IN IF cmd.name = "RUN"
       THEN IF IsArray(cmd.args) THEN cmdArray \o cmd.args.v
            ELSE cmdArray \o <<"/bin/sh", "-c", "#(nop) " \o cmdString>>
       ELSE IF cmd.name \in {"ADD", "COPY"}
       THEN <<"/bin/sh", "-c",
              "#(nop) " \o cmd.name \o " " \o generateHashForCopyInfos(cmd.ctx.copyInfos)
                 \o " in " \o Str(cmd.args.v[Len(cmd.args.v)])>>
       ELSE IF cmd.name \in {"ENTRYPOINT", "CMD"}
       THEN <<"/bin/sh", "-c", "#(nop) " \o "[" \o JoinStr(Quoted(cmd.args.v), " ") \o "]">>
       ELSE <<"/bin/sh", "-c", "#(nop) " \o cmdString>>

\* jsprim.deepEqual of two Labels values (null or a map).
LabelsDeepEqual(l1, l2) ==
    IF IsNull(l1) \/ IsNull(l2) THEN IsNull(l1) /\ IsNull(l2)
    ELSE AsFun(Val(l1)) = AsFun(Val(l2))

\* The filter of getCachedImage without the comparison of the Labels.
existCfgFilterM(b, configNopCmd, img) ==
    /\ img.ContainerConfig.Image = b.image.parent
    /\ ~IsNull(img.ContainerConfig.Cmd)
    /\ Val(img.ContainerConfig.Cmd) = configNopCmd

\* The filter of getCachedImage: does candidate img serve this step?
existCfgFilter(b, configNopCmd, img) ==
    /\ img.ContainerConfig.Image = b.image.parent
    /\ ~IsNull(img.ContainerConfig.Cmd)
    /\ Val(img.ContainerConfig.Cmd) = configNopCmd
    /\ LabelsDeepEqual(b.image.config.Labels, img.Config.Labels)

\* Builder.prototype.getCachedImage: the index in existingImages of the first
\* candidate the filter keeps, 0 when it keeps none (cfgs[0] is undefined).
getCachedImage(b, cmd) ==
    LET configNopCmd == getNopCmdForCommand(b, cmd)
        cfgs == SelectSeq([i \in 1..Len(b.existingImages) |-> i],
                          LAMBDA i : existCfgFilter(b, configNopCmd, b.existingImages[i]))
    IN IF cfgs = <<>> THEN 0 ELSE cfgs[1]

(***************************************************************************)
(* Instruction hooks that only change the image config                     *)
(***************************************************************************)
\* Builder.prototype.addConfigMap(args, 'Labels')
addConfigMap(b, args) ==
    LET map == IF IsNull(b.image.config.Labels) THEN EmptyMap ELSE Val(b.image.config.Labels)
    IN setConfig(b, [b.image.config EXCEPT !.Labels = Some(Merge(map, args))])

\* Builder.prototype.cmdWorkdir
cmdWorkdir(b, cmd) ==
    LET config == b.image.config
        dir == IF cmd.args.v # <<>> /\ cmd.args.v[1] = "/" THEN cmd.args.v
               ELSE pathJoin(config.WorkingDir, cmd.args.v)
        norm == pathNormalize(dir)
        wd == IF Len(norm) > 1 /\ LastChar(norm) = "/" THEN DropLast(norm, 1) ELSE norm
    IN setConfig(b, [config EXCEPT !.WorkingDir = wd])

\* Builder.prototype.cmdLabel
cmdLabel(b, cmd) == addConfigMap(b, cmd.args.v)

\* Builder.prototype.cmdCmd
cmdCmd(b, cmd) ==
    [setConfig(b, [b.image.config EXCEPT !.Cmd = Some(cmd.args.v)]) EXCEPT !.cmdSet = TRUE]

\* Builder.prototype.cmdEntrypoint
cmdEntrypoint(b, cmd) ==
    setConfig(b, [b.image.config EXCEPT
                    !.Entrypoint = Some(cmd.args.v),
                    !.Cmd = IF b.cmdSet THEN @ ELSE Null])

\* Builder.prototype.cmdOnBuild
cmdOnBuild(b, cmd) ==
    setConfig(b, [b.image.config EXCEPT
                    !.OnBuild = Some(Append(IF IsNull(@) THEN <<>> ELSE Val(@), cmd.args.v.raw))])

\* Builder.prototype.cmdUser
cmdUser(b, cmd) == setConfig(b, [b.image.config EXCEPT !.User = cmd.args.v])

\* Builder.prototype.cmdMaintainer
cmdMaintainer(b, cmd) == [b EXCEPT !.image.author = cmd.args.v]

\* Index of the first '=' of a character string, 0 when there is none.
RECURSIVE IndexOfEq(_, _)
IndexOfEq(s, i) ==
    IF i > Len(s) THEN 0 ELSE IF s[i] = "=" THEN i ELSE IndexOfEq(s, i + 1)

\* Builder.prototype.cmdArg, for an args array of length one.
cmdArg(b, cmd) ==
    LET name == cmd.args.v[1]
        idx == IndexOfEq(name, 1)
    IN IF idx > 0
       THEN addArgEntry(b, Str(SubSeq(name, 1, idx - 1)), Some(SliceFrom(name, idx + 1)))
       ELSE addArgEntry(b, Str(name), Null)

\* Builder.prototype.setFromInspectImage(inspectImg) for an image object of
\* the caller of this function (ref = 0) or for existingImages[ref]: the
\* builder's config and container_config become the objects of inspectImg.
setFromInspectImage(b, inspectImg, ref) ==
    LET b1 == [b EXCEPT !.image.config = inspectImg.Config,
                        !.image.container_config = Some(inspectImg.ContainerConfig),
                        !.configRef = ref,
                        !.ccRef = ref]
    IN setParentId(setImageId(b1, inspectImg.Id), inspectImg.Parent)

(***************************************************************************)
(* The host's filesystem                                                   *)
(***************************************************************************)
\* A filesystem is a function from some paths, each the tuple of its
\* component names below the host's root, to nodes: a directory, a file
\* with a checksum, or a symbolic link with its target.  The host's root is
\* a directory; a path outside the domain does not exist.
Dir == [t |-> "dir", to |-> <<>>, sum |-> 0, rev |-> FALSE]
File(sum) == [t |-> "file", to |-> <<>>, sum |-> sum, rev |-> FALSE]
Link(to) == [t |-> "link", to |-> to, sum |-> 0, rev |-> FALSE]
NoNode == [t |-> "none", to |-> <<>>, sum |-> 0, rev |-> FALSE]
\* A directory the filesystem lists from its last name to its first.
DirRev == [Dir EXCEPT !.rev = TRUE]

NodeAt(f, p) == IF p = <<>> THEN Dir ELSE IF p \in DOMAIN f THEN f[p] ELSE NoNode

\* The component names of a path: its pieces between '/' that are not empty.
Components(path) == SelectSeq(Split(path, "/"), LAMBDA c : c # <<>>)

\* The path string of a tuple of component names.
RECURSIVE PathOf(_)
PathOf(p) == IF p = <<>> THEN <<>> ELSE <<"/">> \o Head(p) \o PathOf(Tail(p))

\* Symbolic links the operating system follows in one lookup before it
\* gives up with ELOOP.
OsMaxLinks == 8

OsOk(p) == [err |-> "", at |-> p]
OsErr(code) == [err |-> code, at |-> <<>>]

\* The operating system's path lookup: the components comps are walked from
\* directory cur, '..' leads to the parent, a symbolic link is replaced by
\* its target, taken from the host's root when it is absolute.  With
\* missingOk, what is left of a path whose next component does not exist is
\* taken as it is written (as mkdir -p then makes it).
RECURSIVE OsWalk(_, _, _, _, _)
OsWalk(f, comps, cur, fuel, missingOk) ==
    IF comps = <<>> THEN OsOk(cur)
    ELSE LET c == Head(comps)
             rest == Tail(comps)
             node == NodeAt(f, Append(cur, c))
         IN IF c = <<".">> THEN OsWalk(f, rest, cur, fuel, missingOk)
            ELSE IF c = <<".", ".">>
            THEN OsWalk(f, rest, IF cur = <<>> THEN cur ELSE DropLast(cur, 1), fuel, missingOk)
            ELSE IF node.t = "none"
            THEN IF missingOk THEN OsOk(cur \o comps) ELSE OsErr("ENOENT")
            ELSE IF node.t = "link"
            THEN IF fuel = 0 THEN OsErr("ELOOP")
                 ELSE OsWalk(f, Components(node.to) \o rest,
                             IF node.to[1] = "/" THEN <<>> ELSE cur, fuel - 1, missingOk)
            ELSE IF node.t = "file" /\ rest # <<>> THEN OsErr("ENOTDIR")
            ELSE OsWalk(f, rest, Append(cur, c), fuel, missingOk)

\* fs.realpathSync
realpathSync(f, path) == OsWalk(f, Components(path), <<>>, OsMaxLinks, FALSE)

\* fs.lstatSync: the directory of the path is looked up, its last component
\* is not followed unless the path ends with '/'.
lstatSync(f, path) ==
    Let(Components(path), LAMBDA comps :
        IF comps = <<>> THEN [err |-> "", node |-> Dir]
        ELSE IF LastChar(path) = "/"
        THEN Let(OsWalk(f, comps, <<>>, OsMaxLinks, FALSE), LAMBDA r :
                 IF r.err # "" THEN [err |-> r.err, node |-> NoNode]
                 ELSE IF NodeAt(f, r.at).t # "dir" THEN [err |-> "ENOTDIR", node |-> NoNode]
                 ELSE [err |-> "", node |-> Dir])
        ELSE Let(OsWalk(f, DropLast(comps, 1), <<>>, OsMaxLinks, FALSE), LAMBDA dir :
                 IF dir.err # "" THEN [err |-> dir.err, node |-> NoNode]
                 ELSE IF NodeAt(f, dir.at).t # "dir" THEN [err |-> "ENOTDIR", node |-> NoNode]
                 ELSE LET last == comps[Len(comps)]
                          at == IF last = <<".", ".">>
                                THEN (IF dir.at = <<>> THEN <<>> ELSE DropLast(dir.at, 1))
                                ELSE IF last = <<".">> THEN dir.at
                                ELSE Append(dir.at, last)
                      IN IF NodeAt(f, at).t = "none" THEN [err |-> "ENOENT", node |-> NoNode]
                         ELSE [err |-> "", node |-> NodeAt(f, at)]))

(***************************************************************************)
(* getRealpathFromRootDir, containerRealpath                               *)
(***************************************************************************)
\* The greatest loopCount getRealpathFromRootDir goes on with.
MaxLoopCount == 20

\* What a function that may throw gives: the value it returns, or the
\* message of the exception (err is "" when it returns).
Return(path) == [err |-> "", path |-> path]
Throw(message) == [err |-> message, path |-> <<>>]

ForbiddenPath == "Forbidden path outside the build context: "
ForbiddenPathException(origPath) == Throw(ForbiddenPath \o Str(origPath) \o " ")

\* path.normalize(target).split('/') without its first piece when that is
\* empty, and then without its last piece when that is empty.
targetSplit(target) ==
    Let(Split(pathNormalize(target), "/"), LAMBDA s0 :
    Let(IF s0[1] = <<>> THEN Tail(s0) ELSE s0, LAMBDA s1 :
        IF s1 # <<>> /\ s1[Len(s1)] = <<>> THEN DropLast(s1, 1) ELSE s1))

\* s is outsideRootDir or starts with outsideRootDir + '/'.
underDir(s, dir) == StartsWith(s, Append(dir, "/")) \/ s = dir

\* One turn of the for loop of getRealpathFromRootDir, up to the point where
\* it may call itself: containerPath joined with the component, what lstat
\* says of it, and the path to resolve next when it is a symbolic link.
lookupComponent(f, target, outsideRootDir, containerPath, rest) ==
    Let(pathJoin(containerPath, rest[1]), LAMBDA joined :
    Let(pathJoin(outsideRootDir, joined), LAMBDA outsidePath :
        IF ~underDir(outsidePath, outsideRootDir)
        THEN [kind |-> "throw", r |-> ForbiddenPathException(target)]
        ELSE Let(lstatSync(f, outsidePath), LAMBDA lstat :
                 IF lstat.err = "ENOENT"
                 THEN [kind |-> "break",
                       r |-> Return(IF Len(rest) > 1
                                    THEN pathJoin(joined, JoinWith(Tail(rest), "/"))
                                    ELSE joined)]
                 ELSE IF lstat.err # "" THEN [kind |-> "throw", r |-> Throw(lstat.err)]
                 ELSE IF lstat.node.t = "link"
                 THEN [kind |-> "link",
                       r |-> Return(IF lstat.node.to[1] # "/"
                                    THEN pathJoin(containerPath, lstat.node.to)
                                    ELSE lstat.node.to)]
                 ELSE [kind |-> "next", r |-> Return(joined)])))

\* The end of getRealpathFromRootDir: the trailing '/' of the target is put
\* back.
withTrailingSlash(target, containerPath) ==
    IF LastChar(target) = "/" /\ LastChar(containerPath) # "/"
    THEN Append(containerPath, "/")
    ELSE containerPath

\* getRealpathFromRootDir calls itself for the target of a symbolic link,
\* and goes on with the next component when that call returns.  Its
\* activations are kept on a stack here, the innermost last, each with its
\* target, what is left of its targetSplit, and its containerPath; the
\* loopCount of an activation is its depth in the stack.  A call:
Activation(target) ==
    [target |-> target, rest |-> targetSplit(target), containerPath |-> <<"/">>]

\* realpathTurn giving up one resolution early, at loopCount 20.
realpathTurnM(f, outsideRootDir, loopCount, m) ==
    LET n == Len(m.stack)
        top == m.stack[n]
    IN IF top.rest = <<>>
       THEN Let(withTrailingSlash(top.target, top.containerPath), LAMBDA returned :
                IF n = 1 THEN [stack |-> <<>>, r |-> Return(returned)]
                ELSE [m EXCEPT !.stack = [DropLast(m.stack, 1) EXCEPT
                                              ![n - 1].containerPath = returned]])
       ELSE Let(lookupComponent(f, top.target, outsideRootDir, top.containerPath, top.rest),
                LAMBDA l :
                CASE l.kind = "throw" -> [stack |-> <<>>, r |-> l.r]
                  [] l.kind = "break" ->
                       [m EXCEPT !.stack[n].containerPath = l.r.path, !.stack[n].rest = <<>>]
                  [] l.kind = "next" ->
                       [m EXCEPT !.stack[n].containerPath = l.r.path,
                                 !.stack[n].rest = Tail(@)]
                  [] l.kind = "link" ->
                       IF loopCount + n >= MaxLoopCount
                       THEN [stack |-> <<>>,
                             r |-> Throw("too many symlinks in desination path: "
                                             \o Str(l.r.path))]
                       ELSE [m EXCEPT !.stack = Append([@ EXCEPT ![n].rest = Tail(@)],
                                                       Activation(l.r.path))])

\* One step of the innermost activation: the end of its loop returns its
\* containerPath to the activation that called it, a turn of its loop goes
\* to the next component, breaks out of the loop, throws (which ends every
\* activation), or calls getRealpathFromRootDir with loopCount + 1.
realpathTurn(f, outsideRootDir, loopCount, m) ==
    LET n == Len(m.stack)
        top == m.stack[n]
    IN IF top.rest = <<>>
       THEN Let(withTrailingSlash(top.target, top.containerPath), LAMBDA returned :
                IF n = 1 THEN [stack |-> <<>>, r |-> Return(returned)]
                ELSE [m EXCEPT !.stack = [DropLast(m.stack, 1) EXCEPT
                                              ![n - 1].containerPath = returned]])
       ELSE Let(lookupComponent(f, top.target, outsideRootDir, top.containerPath, top.rest),
                LAMBDA l :
                CASE l.kind = "throw" -> [stack |-> <<>>, r |-> l.r]
                  [] l.kind = "break" ->
                       [m EXCEPT !.stack[n].containerPath = l.r.path, !.stack[n].rest = <<>>]
                  [] l.kind = "next" ->
                       [m EXCEPT !.stack[n].containerPath = l.r.path,
                                 !.stack[n].rest = Tail(@)]
                  [] l.kind = "link" ->
                       IF loopCount + n > MaxLoopCount
                       THEN [stack |-> <<>>,
                             r |-> Throw("too many symlinks in desination path: "
                                             \o Str(l.r.path))]
                       ELSE [m EXCEPT !.stack = Append([@ EXCEPT ![n].rest = Tail(@)],
                                                       Activation(l.r.path))])

RECURSIVE realpathRun(_, _, _, _)
realpathRun(f, outsideRootDir, loopCount, m) ==
    IF m.stack = <<>> THEN m.r
    ELSE realpathRun(f, outsideRootDir, loopCount, realpathTurn(f, outsideRootDir, loopCount, m))

\* getRealpathFromRootDir(target, outsideRootDir, loopCount) on filesystem f
getRealpathFromRootDir(f, target, outsideRootDir, loopCount) ==
    IF loopCount > MaxLoopCount
    THEN Throw("too many symlinks in desination path: " \o Str(target))
    ELSE realpathRun(f, outsideRootDir, loopCount,
                     [stack |-> <<Activation(target)>>, r |-> Return(<<>>)])

\* The directories the builder is constructed with.
contextExtractDir == <<"/", "c">>
containerRootDir == <<"/", "z">>

\* Builder.prototype.containerRealpath
containerRealpath(b, f, target) ==
    LET workingDir == IF b.image.config.WorkingDir = <<>> THEN <<"/">>
                      ELSE b.image.config.WorkingDir
        containerPath == IF target[1] # "/" THEN pathJoin(workingDir, target) ELSE target
    IN getRealpathFromRootDir(f, containerPath, containerRootDir, 0)

(***************************************************************************)
(* ADD and COPY: what is copied, and where to                              *)
(***************************************************************************)
\* The path string of a node of the filesystem.
HostPath(p) == IF p = <<>> THEN <<"/">> ELSE PathOf(p)

\* copyInfo.contextPath without the test that the real path is in the
\* context.
contextPathM(f, origPath) ==
    Let(realpathSync(f, pathJoin(contextExtractDir, origPath)), LAMBDA src :
        IF src.err # "" THEN Throw(src.err) ELSE Return(HostPath(src.at)))

\* copyInfo.contextPath: the real path of the source, which must be the
\* extracted context or below it.
contextPath(f, origPath) ==
    Let(realpathSync(f, pathJoin(contextExtractDir, origPath)), LAMBDA src :
        IF src.err # "" THEN Throw(src.err)
        ELSE IF ~underDir(HostPath(src.at), contextExtractDir)
        THEN ForbiddenPathException(origPath)
        ELSE Return(HostPath(src.at)))

\* new copyInfo(builder, origPath, destPath, ...), with the lazy properties
\* that are read of it: contextPath, contextPathIsDirectory, and the sum
\* that stands for the content of a file.
CopyInfo(f, origPath, destPath, real) ==
    Let(NodeAt(f, Components(real)), LAMBDA stat :
        [origPath |-> origPath, destPath |-> destPath, hash |-> "",
         contextPath |-> real,
         contextPathIsDirectory |-> stat.t = "dir",
         sum |-> stat.sum,
         children |-> <<>>])

\* copyInfo.checksum: fileGetSha256Sync of the file.
checksum(ci) == sha256("content" \o ToString(ci.sum))

\* The names the model gives to files, in the order a directory lists them
\* unless it lists them in the reverse order.
Names == << <<"d">>, <<"e">>, <<"f">>, <<"g">>, <<"h">>, <<"k">>, <<"l">>, <<"p">>,
           <<"s">>, <<"t">>, <<"u">> >>

Reverse(seq) == [i \in 1..Len(seq) |-> seq[Len(seq) + 1 - i]]

\* fs.readdir and fs.readdirSync of a directory given by its real path: the
\* names come in the order the filesystem lists the directory in.
readdir(f, dir) ==
    LET at == Components(dir)
        names == SelectSeq(Names, LAMBDA name : NodeAt(f, Append(at, name)).t # "none")
    IN IF NodeAt(f, at).rev THEN Reverse(names) ELSE names

\* copyInfo.getAllChildren
RECURSIVE getAllChildren(_)
RECURSIVE getAllChildrenOf(_)
getAllChildrenOf(children) ==
    IF children = <<>> THEN <<>>
    ELSE LET cci == Head(children)
         IN <<cci>> \o (IF cci.contextPathIsDirectory THEN getAllChildren(cci) ELSE <<>>)
                   \o getAllChildrenOf(Tail(children))
getAllChildren(ci) == getAllChildrenOf(ci.children)

\* copyInfo.getAllChildFiles
RECURSIVE getAllChildFiles(_)
RECURSIVE getAllChildFilesOf(_)
getAllChildFilesOf(children) ==
    IF children = <<>> THEN <<>>
    ELSE LET cci == Head(children)
         IN (IF cci.contextPathIsDirectory THEN getAllChildFiles(cci) ELSE <<cci>>)
               \o getAllChildFilesOf(Tail(children))
getAllChildFiles(ci) == getAllChildFilesOf(ci.children)

\* Builder.prototype.loadChildInfo: ci with its children, and theirs.  The
\* directories of the contexts of the model hold no symbolic link, so that
\* the contextPath of a child is the directory's joined with its name.
RECURSIVE loadChildInfo(_, _)
RECURSIVE loadChildren(_, _, _)
loadChildren(f, ci, names) ==
    IF names = <<>> THEN <<>>
    ELSE Let(pathJoin(ci.origPath, Head(names)), LAMBDA origPath :
         Let(CopyInfo(f, origPath, pathJoin(ci.destPath, Head(names)),
                      contextPath(f, origPath).path),
             LAMBDA cci :
             <<IF cci.contextPathIsDirectory THEN loadChildInfo(f, cci) ELSE cci>>
                \o loadChildren(f, ci, Tail(names))))
loadChildInfo(f, ci) == [ci EXCEPT !.children = loadChildren(f, ci, readdir(f, ci.contextPath))]

RECURSIVE Checksums(_)
Checksums(cis) == IF cis = <<>> THEN <<>> ELSE <<checksum(Head(cis))>> \o Checksums(Tail(cis))

\* Builder.prototype.infoForFileCopy
infoForFileCopy(ci) == [ci EXCEPT !.hash = "file:" \o checksum(ci)]

\* Builder.prototype.infoForDirectoryCopy: cciHashes.sort() orders the
\* digests; the files are ordered by their sums here.
infoForDirectoryCopy(f, ci) ==
    Let(loadChildInfo(f, ci), LAMBDA loaded :
        [loaded EXCEPT !.hash =
            "dir:" \o sha256(JoinStr(Checksums(SortSeq(getAllChildFiles(loaded),
                                                       LAMBDA x, y : x.sum < y.sum)),
                                     ","))])

\* What a function gives to its callback: an error (err is "" for none) and
\* copyInfos.
CallbackCopyInfos(err, copyInfos) == [err |-> err, copyInfos |-> copyInfos, thrown |-> FALSE]
\* A function that throws instead of calling its callback.
ThrownCopyInfos(err) == [err |-> err, copyInfos |-> <<>>, thrown |-> TRUE]

\* utils.containsWildcards
RECURSIVE containsWildcards(_)
containsWildcards(name) ==
    IF name = <<>> THEN FALSE
    ELSE IF Head(name) = "\\" THEN Len(name) > 1 /\ containsWildcards(Tail(Tail(name)))
    ELSE Head(name) \in {"*", "?", "["} \/ containsWildcards(Tail(name))

\* minimatch.makeRe(pattern).test(name), for a pattern of characters, '*'
\* and '?' and a name that does not start with '.'.
RECURSIVE minimatch(_, _)
minimatch(pattern, name) ==
    IF pattern = <<>> THEN name = <<>>
    ELSE IF Head(pattern) = "*"
    THEN minimatch(Tail(pattern), name) \/ (name # <<>> /\ minimatch(pattern, Tail(name)))
    ELSE /\ name # <<>>
         /\ Head(pattern) = "?" \/ Head(pattern) = Head(name)
         /\ minimatch(Tail(pattern), Tail(name))

\* What getMatchedContainerPaths and the loops over it give: paths, or the
\* message of what they throw.
Matched(paths) == [err |-> "", paths |-> paths]
MatchThrows(err) == [err |-> err, paths |-> <<>>]

\* The second filter of getMatchedContainerPaths for the names left of the
\* first: directories, and files for the last piece of the pattern; a
\* symbolic link is looked up by its real path in the context, as a path of
\* the host.
RECURSIVE filterEntries(_, _, _, _, _)
filterEntries(f, contDir, outsideDir, names, allowFilePaths) ==
    IF names = <<>> THEN Matched(<<>>)
    ELSE Let(Head(names), LAMBDA name :
         Let(lstatSync(f, pathJoin(outsideDir, name)), LAMBDA lstat0 :
         Let(IF lstat0.err = "" /\ lstat0.node.t = "link"
             THEN getRealpathFromRootDir(f, pathJoin(contDir, name), contextExtractDir, 0)
             ELSE Return(<<>>),
             LAMBDA real :
         Let(IF lstat0.err = "" /\ lstat0.node.t = "link" /\ real.err = ""
             THEN lstatSync(f, real.path) ELSE lstat0,
             LAMBDA lstat :
             IF real.err # "" THEN MatchThrows(real.err)
             ELSE IF lstat.err # "" THEN MatchThrows(lstat.err)
             ELSE Let(filterEntries(f, contDir, outsideDir, Tail(names), allowFilePaths),
                      LAMBDA others :
                      IF others.err # "" THEN others
                      ELSE IF lstat.node.t = "dir" \/ (allowFilePaths /\ lstat.node.t = "file")
                      THEN Matched(<<pathJoin(contDir, name)>> \o others.paths)
                      ELSE others)))))

\* getMatchedContainerPaths of infoForWildcardCopy
getMatchedContainerPaths(f, contDir0, pattern, allowFilePaths) ==
    Let(getRealpathFromRootDir(f, contDir0, contextExtractDir, 0), LAMBDA contDir :
        IF contDir.err # "" THEN MatchThrows(contDir.err)
        ELSE Let(pathJoin(contextExtractDir, contDir.path), LAMBDA outsideDir :
             Let(realpathSync(f, outsideDir), LAMBDA dir :
                 IF dir.err # "" THEN MatchThrows(dir.err)
                 ELSE IF NodeAt(f, dir.at).t # "dir" THEN MatchThrows("ENOTDIR")
                 ELSE filterEntries(f, contDir.path, outsideDir,
                                    SelectSeq(readdir(f, HostPath(dir.at)),
                                              LAMBDA name : minimatch(pattern, name)),
                                    allowFilePaths))))

\* The inner loop of infoForWildcardCopy: the matches of one piece of the
\* pattern below each of paths, concatenated.
RECURSIVE matchBelow(_, _, _, _)
matchBelow(f, paths, pattern, isLastPattern) ==
    IF paths = <<>> THEN Matched(<<>>)
    ELSE Let(getMatchedContainerPaths(f, Head(paths), pattern, isLastPattern), LAMBDA first :
             IF first.err # "" THEN first
             ELSE Let(matchBelow(f, Tail(paths), pattern, isLastPattern), LAMBDA others :
                      IF others.err # "" THEN others
                      ELSE Matched(first.paths \o others.paths)))

\* The outer loop of infoForWildcardCopy over patternSplit.
RECURSIVE matchPieces(_, _, _)
matchPieces(f, paths, patternSplit) ==
    IF patternSplit = <<>> THEN Matched(paths)
    ELSE Let(matchBelow(f, paths, Head(patternSplit), Len(patternSplit) = 1), LAMBDA newPaths :
             IF newPaths.err # "" THEN newPaths
             ELSE matchPieces(f, newPaths.paths, Tail(patternSplit)))

\* The iterator of async.each in infoForWildcardCopy over the matched
\* paths: copyInfos in the order of the paths, or the first error.
RECURSIVE wildcardInfos(_, _, _)
wildcardInfos(f, paths, destPath) ==
    IF paths = <<>> THEN CallbackCopyInfos("", <<>>)
    ELSE Let(contextPath(f, Head(paths)), LAMBDA real :
             IF real.err # "" THEN CallbackCopyInfos(real.err, <<>>)
             ELSE Let(CopyInfo(f, Head(paths), destPath, real.path), LAMBDA ci :
                  Let(wildcardInfos(f, Tail(paths), destPath), LAMBDA others :
                      IF others.err # "" THEN others
                      ELSE CallbackCopyInfos("",
                               <<IF ci.contextPathIsDirectory THEN infoForDirectoryCopy(f, ci)
                                 ELSE infoForFileCopy(ci)>> \o others.copyInfos))))

\* Builder.prototype.infoForWildcardCopy
infoForWildcardCopy(f, origPath, destPath) ==
    Let(matchPieces(f, << <<"/">> >>, Split(origPath, "/")), LAMBDA paths :
        IF paths.err # "" THEN ThrownCopyInfos(paths.err)
        ELSE wildcardInfos(f, paths.paths, destPath))

\* Builder.prototype.calculateCopyInfo, for a source that is no URL.
calculateCopyInfo(f, origPath0, destPath) ==
    LET origPath1 == IF Len(origPath0) > 1 /\ origPath0[1] = "/"
                     THEN SliceFrom(origPath0, 2) ELSE origPath0
        origPath == IF StartsWith(origPath1, <<".", "/">>)
                    THEN SliceFrom(origPath1, 3) ELSE origPath1
    IN IF containsWildcards(origPath) THEN infoForWildcardCopy(f, origPath, destPath)
       ELSE
       Let(contextPath(f, origPath), LAMBDA real :
           IF real.err = "ENOENT"
           THEN CallbackCopyInfos("stat " \o Str(origPath) \o ": no such file or directory",
                                  <<>>)
           ELSE IF real.err # "" THEN CallbackCopyInfos(real.err, <<>>)
           ELSE Let(CopyInfo(f, origPath, destPath, real.path), LAMBDA ci :
                    IF ~ci.contextPathIsDirectory
                    THEN CallbackCopyInfos("", <<infoForFileCopy(ci)>>)
                    ELSE CallbackCopyInfos("", <<infoForDirectoryCopy(f, ci)>>)))

\* async.mapSeries(filepaths, cciMapFn, ...) and the flattening of its
\* results: the first error ends it.
RECURSIVE mapSeries(_, _, _)
mapSeries(f, filepaths, destPath) ==
    IF filepaths = <<>> THEN CallbackCopyInfos("", <<>>)
    ELSE Let(calculateCopyInfo(f, Head(filepaths), destPath), LAMBDA first :
             IF first.err # "" THEN first
             ELSE Let(mapSeries(f, Tail(filepaths), destPath), LAMBDA others :
                      IF others.err # "" THEN others
                      ELSE CallbackCopyInfos("", first.copyInfos \o others.copyInfos)))

\* Builder.prototype.getCopyInfo
getCopyInfo(b, f, c) ==
    LET args == c.args.v
        last == args[Len(args)]
        dest == IF last[1] # "/" THEN pathJoin(b.image.config.WorkingDir, last) ELSE last
    IN IF Len(args) < 2
       THEN CallbackCopyInfos("Invalid " \o c.name
                                \o " format - at least two arguments required", <<>>)
       ELSE Let(containerRealpath(b, f, dest), LAMBDA resolvedDest :
                IF resolvedDest.err # "" THEN CallbackCopyInfos(resolvedDest.err, <<>>)
                ELSE Let(mapSeries(f, DropLast(args, 1), resolvedDest.path), LAMBDA mapped :
                         IF mapped.err # "" THEN mapped
                         ELSE IF Len(mapped.copyInfos) = 0
                         THEN CallbackCopyInfos("No source files were specified", <<>>)
                         ELSE IF Len(mapped.copyInfos) > 1 /\ LastChar(dest) # "/"
                         THEN CallbackCopyInfos(
                                  "When using " \o c.name \o " with more than one source "
                                    \o "file, the destination must be a directory and end "
                                    \o "with a /", <<>>)
                         ELSE mapped))

\* copyInfo.destPathIsDirectory
destPathIsDirectory(ci) == LastChar(ci.destPath) = "/"

\* copyInfo.containerAbsPath and copyInfo.basename
containerAbsPath(ci) == SliceFrom(ci.contextPath, Len(contextExtractDir) + 1)
basename(ci) == pathBasename(containerAbsPath(ci))

\* copyInfo.zoneDestPath
zoneDestPath(ci) ==
    Let(pathJoin(containerRootDir, ci.destPath), LAMBDA dest :
        IF destPathIsDirectory(ci) /\ ~ci.contextPathIsDirectory
        THEN pathJoin(dest, basename(ci))
        ELSE dest)

\* What doCopy does for a copyInfo, flattened: a directory is made, and
\* then doCopy is called for each of getAllChildren; a file is copied.
RECURSIVE doCopy(_)
RECURSIVE doCopyEach(_)
doCopyEach(cis) == IF cis = <<>> THEN <<>> ELSE doCopy(Head(cis)) \o doCopyEach(Tail(cis))
doCopy(ci) ==
    IF ci.contextPathIsDirectory
    THEN <<[ci EXCEPT !.children = <<>>]>> \o doCopyEach(getAllChildren(ci))
    ELSE <<ci>>

\* mkdirp of utils.mkdirpChown: the components of dir are looked up from
\* the host's root, the missing ones are made; it fails on a component that
\* is a file, or a symbolic link that does not lead to a directory.
RECURSIVE mkdirpErr(_, _, _)
mkdirpErr(f, comps, cur) ==
    IF comps = <<>> THEN ""
    ELSE IF NodeAt(f, Append(cur, Head(comps))).t = "none" THEN ""
    ELSE Let(OsWalk(f, <<Head(comps)>>, cur, OsMaxLinks, FALSE), LAMBDA real :
             IF real.err # "" THEN "EEXIST"
             ELSE IF NodeAt(f, real.at).t # "dir" THEN "EEXIST"
             ELSE mkdirpErr(f, Tail(comps), real.at))

mkdirpChown(f, dir) == mkdirpErr(f, Components(dir), <<>>)

(***************************************************************************)
(* The build driver: inputs                                                *)
(***************************************************************************)
VARIABLES
    fs,           \* the host's files: the extracted context, the image's root
    result,       \* what the last resolution of a container path gave
    builder,      \* the Builder object (and the events it has emitted)
    allCommands,  \* the parsed Dockerfile
    store,        \* the images the host can reprovision, by name or id
    pc,           \* where the builder's control is
    cmdIdx,       \* position of async.eachSeries in allCommands
    triggers,     \* what is left of the ONBUILD triggers being replayed
    inTriggers,   \* whether the current step is a replayed trigger
    cmd,          \* the instruction of the current step
    work,         \* what is left of the files the current ADD/COPY copies
    pending,      \* emitted events whose callback the host has not yet invoked
    calls         \* the callbacks the host has invoked, with what it gave them

vars == <<fs, result, builder, allCommands, store, pc, cmdIdx, triggers, inTriggers, cmd, work, pending, calls>>

scratch == "scratch"
slashA == <<"/", "a">>

\* The instructions the Dockerfiles of the model are made of.
Instructions ==
    << Instr("FROM", "str", scratch, "FROM scratch"),
       Instr("FROM", "str", "onb", "FROM onb"),
       Instr("WORKDIR", "text", slashA, "WORKDIR /a"),
       Instr("RUN", "str", "x", "RUN x"),
       Instr("LABEL", "obj", << <<"k", <<"v">> >> >>, "LABEL k=v"),
       Instr("ARG", "texts", << <<"n">> >>, "ARG n"),
       Instr("CMD", "str", "c", "CMD c"),
       Instr("COPY", "texts", <<<<"d">>, <<"/", "t", "/">>>>, "COPY d /t/"),
       Instr("COPY", "texts", <<<<"f">>, <<"/", "t", "/">>>>, "COPY f /t/"),
       Instr("COPY", "texts", <<<<"l">>, <<"/", "t", "/">>>>, "COPY l /t/"),
       Instr("COPY", "texts", <<<<".", ".", "/", "e", "/", "p">>, <<"/", "t", "/">>>>, "COPY ../e/p /t/"),
       Instr("COPY", "texts", <<<<"f">>, <<".", ".", "/", "c", "c", "/", "s">>, <<"/", "t", "/">>>>,
             "COPY f ../cc/s /t/"),
       Instr("COPY", "texts", <<<<"n", "x">>, <<".", ".", "/", "e", "/", "p">>, <<"/", "t", "/">>>>,
             "COPY nx ../e/p /t/"),
       Instr("COPY", "texts", <<<<"/", "f">>, <<"t">>>>, "COPY /f t"),
       Instr("COPY", "texts", <<<<"*">>, <<"/", "t", "/">>>>, "COPY * /t/"),
       Instr("COPY", "texts", <<<<"d", "/", "?">>, <<"/", "t", "/">>>>, "COPY d/? /t/"),
       Instr("COPY", "texts", <<<<".", "/", "d">>, <<"/", "t", "/", "h">>>>, "COPY ./d /t/h"),
       Instr("ENTRYPOINT", "str", "e", "ENTRYPOINT e"),
       Instr("RUN", "str", "c", "RUN c"),
       Instr("ARG", "texts", <<<<"n", "=", "1">>>>,
             "ARG n=1"),
       Instr("WORKDIR", "text", <<"/", "$", "n">>,
             "WORKDIR /$n"),
       Instr("WORKDIR", "text", <<"/", "$", "{", "n", ":", "-", "b", "}">>,
             "WORKDIR /${n:-b}"),
       Instr("WORKDIR", "text", <<"/", "$", "{", "n", ":", "+", "b", "}">>,
             "WORKDIR /${n:+b}"),
       Instr("WORKDIR", "text", <<"/", "$", "{", "n", ":", "?", "b", "}">>,
             "WORKDIR /${n:?b}"),
       Instr("WORKDIR", "text", <<"/", "$", "{", "n", "!", "}">>,
             "WORKDIR /${n!}"),
       Instr("WORKDIR", "text", <<"/", "'", "$", "n", "'">>,
             "WORKDIR /'$n'"),
       Instr("LABEL", "obj", << <<"k", <<"$", "{", "n", "=", "}">>>> >>,
             "LABEL k=${n=}"),
       Instr("RUN", "text", <<"$", "n">>,
             "RUN $n"),
       Instr("CMD", "text", <<"'", "$", "n", "'">>,
             "CMD '$n'"),
       Instr("MAINTAINER", "str", "m", "MAINTAINER m"),
       Instr("ONBUILD", "cmd", [name |-> "RUN", args |-> "x", raw |-> "RUN x"], "ONBUILD RUN x"),
       Instr("FROM", "str", "onf", "FROM onf"),
       Instr("ENV", "obj", << <<"HTTP_PROXY", <<"e">>>> >>, "ENV HTTP_PROXY=e"),
       Instr("ENV", "obj", << <<"PATH", <<"/", "b">>>> >>, "ENV PATH=/b"),
       Instr("USER", "str", "u", "USER u"),
       Instr("EXPOSE", "texts", <<<<"7", "0", "0", "0">>>>, "EXPOSE 7000"),
       Instr("EXPOSE", "texts", <<<<"8", "0", "0", "0", "-", "8", "0", "0", "2">>, <<"2", "3", "7", "5", "/", "U", "D", "P">>>>, "EXPOSE 8000-8002 2375/UDP"),
       Instr("EXPOSE", "texts", <<<<"9", "-", "8">>, <<"7", "0", "0", "0">>>>, "EXPOSE 9-8 7000"),
       Instr("EXPOSE", "texts", <<<<"7", "0", "0", "1">>, <<"1", "0", "-", "9", "/", "t", "c", "p">>>>, "EXPOSE 7001 10-9/tcp"),
       Instr("EXPOSE", "texts", <<<<"8", "0", "0", "1", "-", "8", "0", "0", "1">>>>, "EXPOSE 8001-8001"),
       Instr("VOLUME", "texts", <<<<"/", "a">>, <<"/", "b">>>>, "VOLUME /a /b"),
       Instr("VOLUME", "texts", <<<<"/", "a">>, <<"$", "q">>>>, "VOLUME /a $q"),
       Instr("VOLUME", "texts", <<<<"$", "q">>, <<"/", "a">>>>, "VOLUME $q /a"),
       Instr("WORKDIR", "text", <<"b">>, "WORKDIR b"),
       Instr("WORKDIR", "text", <<".", ".">>, "WORKDIR .."),
       Instr("WORKDIR", "text", <<"/", "a", "/", ".", ".", "/", "b", "/">>, "WORKDIR /a/../b/"),
       Instr("WORKDIR", "text", <<".", "/", "c", "/", "/", "d", "/", ".">>, "WORKDIR ./c//d/."),
       Instr("WORKDIR", "text", <<"/">>, "WORKDIR /"),
       Instr("ENV", "obj", << <<"n", <<"1">>>>, <<"nq", <<"3">>>> >>, "ENV n=1 nq=3"),
       Instr("ENV", "obj", << <<"nq", <<"3">>>>, <<"n", <<"1">>>> >>, "ENV nq=3 n=1"),
       Instr("ENV", "obj", << <<"n", <<"2">>>> >>, "ENV n=2"),
       Instr("ENV", "obj", << <<"q", <<"4">>>> >>, "ENV q=4") >>

\* The instructions of which every Dockerfile of at most MaxSteps
\* instructions is built under every choice of options; the other ones are
\* built after 'FROM scratch', over every layout of the host's files.
General == {i \in DOMAIN Instructions :
               Instructions[i].raw \in {"FROM scratch", "FROM onb", "WORKDIR /a", "RUN x",
                                        "LABEL k=v", "ARG n", "CMD c", "COPY d /t/"}}

NopCmd(str) == Some(<<"/bin/sh", "-c", "#(nop) " \o str>>)

\* dockerFileParser.parse of one raw line: the instructions it holds.
parseLine(raw) ==
    LET hit == SelectSeq(Instructions, LAMBDA c : c.raw = raw)
    IN IF hit = <<>> THEN <<>> ELSE <<hit[1]>>

\* The sequences over S of length at most len.
RECURSIVE SeqsUpTo(_, _)
SeqsUpTo(S, len) ==
    IF len = 0 THEN {<<>>}
    ELSE LET shorter == SeqsUpTo(S, len - 1)
         IN shorter \cup {Append(q, i) : q \in shorter, i \in S}

\* A Dockerfile is the sequence of the numbers its instructions have in
\* Instructions.
Dockerfiles == SeqsUpTo(General, MaxSteps)
CopyDockerfiles == {<<1, i>> : i \in {j \in DOMAIN Instructions : Instructions[j].name = "COPY"}}

\* An image in docker inspect format.
\* sameObject tells whether Config and ContainerConfig are one object.
Inspect(id, parent, config, containerConfig) ==
    [Id |-> id, Parent |-> parent, Config |-> config, ContainerConfig |-> containerConfig,
     sameObject |-> FALSE]

\* The base image 'onb': two ONBUILD triggers.
OnbImage ==
    Inspect("onb1", NullId,
            [DEFAULT_IMAGE_CONFIG EXCEPT !.Image = NullId,
                                         !.OnBuild = Some(<<"WORKDIR /a", "RUN x">>)],
            [DEFAULT_IMAGE_CONFIG EXCEPT !.Image = NullId,
                                         !.Cmd = NopCmd("ONBUILD RUN x"),
                                         !.OnBuild = Some(<<"WORKDIR /a", "RUN x">>)])

\* The base image 'onf', whose triggers are MAINTAINER, ONBUILD and FROM
\* instructions.
OnfImage ==
    Inspect("onf1", NullId,
            [DEFAULT_IMAGE_CONFIG EXCEPT
                !.Image = NullId,
                !.OnBuild = Some(<<"MAINTAINER m", "ONBUILD RUN x", "FROM scratch">>)],
            [DEFAULT_IMAGE_CONFIG EXCEPT
                !.Image = NullId,
                !.Cmd = NopCmd("ONBUILD FROM scratch"),
                !.OnBuild = Some(<<"MAINTAINER m", "ONBUILD RUN x", "FROM scratch">>)])

\* Images of earlier builds: 'WORKDIR /a' on parent, and 'RUN x' on top of
\* an image whose WorkingDir is /a.  Their Parent is parentField: the tests
\* of the repository give candidates without a Parent (undefined), docker
\* inspect gives the parent's id.
WorkdirImage(id, parent, parentField, labels) ==
    Inspect(id, parentField,
            [DEFAULT_IMAGE_CONFIG EXCEPT !.Image = parent, !.WorkingDir = slashA,
                                         !.Labels = labels],
            [DEFAULT_IMAGE_CONFIG EXCEPT !.Image = parent, !.WorkingDir = slashA,
                                         !.Labels = labels,
                                         !.Cmd = NopCmd("WORKDIR /a")])
RunImage(id, parent, parentField) ==
    Inspect(id, parentField,
            [DEFAULT_IMAGE_CONFIG EXCEPT !.Image = parent, !.WorkingDir = slashA],
            [DEFAULT_IMAGE_CONFIG EXCEPT !.Image = parent, !.WorkingDir = slashA,
                                         !.Cmd = Some(<<"/bin/sh", "-c", "x">>)])

\* A candidate as the tests of the repository give it: one config object
\* is both its Config and its ContainerConfig, and it has no Parent.
FixtureImage(id, config) == [Inspect(id, Undefined, config, config) EXCEPT !.sameObject = TRUE]

\* The existingImages lists the builder is constructed with.
ExistingImagesChoices ==
    { <<>>,
      \* as in the tests 'caching' and 'partialcaching'
      << FixtureImage("c1", WorkdirImage("c1", NullId, Undefined, Null).ContainerConfig),
         FixtureImage("c2", RunImage("c2", "c1", Undefined).ContainerConfig) >>,
      \* as docker inspect: Parent is the parent's id; c3 serves the same step
      \* as c1, c4 differs from it in its labels, c5 is built on 'onb'
      << WorkdirImage("c4", NullId, NullId, Some(<< <<"k", <<"v">> >> >>)),
         WorkdirImage("c1", NullId, NullId, Null),
         WorkdirImage("c3", NullId, NullId, Null),
         RunImage("c2", "c1", "c1"),
         WorkdirImage("c5", "onb1", "onb1", Null) >> }

Options ==
    {[commandType |-> "build", buildargs |-> EmptyMap, labels |-> EmptyMap,
      existingImages |-> e, nocache |-> n] :
        e \in ExistingImagesChoices, n \in BOOLEAN}

\* An image of an earlier build of 'ARG n' on parent, in docker inspect format.
ArgImage(id, parent) ==
    Inspect(id, parent,
            [DEFAULT_IMAGE_CONFIG EXCEPT !.Image = parent],
            [DEFAULT_IMAGE_CONFIG EXCEPT !.Image = parent, !.Cmd = NopCmd("ARG n")])

\* The --build-arg values given on the command line.
BuildArgsChoices ==
    { EmptyMap,
      << <<"n", Some(<<"1">>)>> >>,
      << <<"q", Some(<<"1">>)>> >>,
      << <<"HTTP_PROXY", Some(<<"p">>)>>, <<"n", Some(<<"1">>)>> >>,
      << <<"FTP_PROXY", Some(<<"f">>)>>, <<"HTTP_PROXY", Some(<<"p">>)>> >> }

\* The builds with build-args: with and without an image of 'ARG n' on
\* scratch, and of 'RUN x' on top of it, among the existing images.
ArgOptions ==
    {[commandType |-> "build", buildargs |-> a, labels |-> EmptyMap,
      existingImages |-> e, nocache |-> FALSE] :
        a \in BuildArgsChoices,
        e \in {<<>>, <<ArgImage("c6", NullId), RunImage("c7", "c6", "c6")>>}}

ArgDockerfiles ==
    SeqsUpTo({i \in DOMAIN Instructions :
                 Instructions[i].raw \in {"FROM scratch", "ARG n", "RUN x", "ENV HTTP_PROXY=e",
                                          "ENV PATH=/b", "USER u"}}, MaxSteps)

\* An image of an earlier build of 'CMD c' on parent, in docker inspect format.
CmdImage(id, parent) ==
    Inspect(id, parent,
            [DEFAULT_IMAGE_CONFIG EXCEPT !.Image = parent,
                                         !.Cmd = Some(<<"/bin/sh", "-c", "c">>)],
            [DEFAULT_IMAGE_CONFIG EXCEPT !.Image = parent,
                                         !.Cmd = NopCmd("[\"/bin/sh\" \"-c\" \"c\"]")])

\* The builds with CMD and ENTRYPOINT: with and without an image of 'CMD c'
\* on scratch among the existing images.
EntrypointOptions ==
    {[commandType |-> "build", buildargs |-> EmptyMap, labels |-> EmptyMap,
      existingImages |-> e, nocache |-> FALSE] :
        e \in {<<>>, <<CmdImage("c8", NullId)>>}}

EntrypointDockerfiles ==
    SeqsUpTo({i \in DOMAIN Instructions :
                 Instructions[i].raw \in {"FROM scratch", "CMD c", "ENTRYPOINT e", "RUN c"}},
             MaxSteps)

\* The builds with variables in the arguments: a build-arg n on the
\* command line or none, CLI labels or none.
VarCliArgs == << <<"n", Some(<<"2">>)>> >>
VarOptions ==
    {[commandType |-> "build", buildargs |-> a, labels |-> l,
      existingImages |-> <<>>, nocache |-> FALSE] :
        a \in {EmptyMap, VarCliArgs},
        l \in {EmptyMap, << <<"k", <<"c">>>> >>}}

\* The builds with a label k=c on the command line, with no images of
\* earlier builds or with those docker inspect tells of; their Dockerfiles
\* build on scratch or on 'onb' and may set the label k themselves.
LabelOptions ==
    {[commandType |-> "build", buildargs |-> EmptyMap, labels |-> << <<"k", <<"c">>>> >>,
      existingImages |-> e, nocache |-> FALSE] :
        e \in {e \in ExistingImagesChoices : Len(e) # 2}}
LabelDockerfiles ==
    SeqsUpTo({i \in DOMAIN Instructions :
                 Instructions[i].raw \in {"FROM scratch", "FROM onb", "WORKDIR /a", "LABEL k=v"}},
             MaxSteps)

\* They start from scratch.
VarDockerfiles ==
    {<<1>> \o d : d \in SeqsUpTo({i \in DOMAIN Instructions :
                                     Instructions[i].raw \in
                                         {"ARG n", "ARG n=1", "WORKDIR /$n", "WORKDIR /${n:-b}",
                                          "WORKDIR /${n:+b}", "WORKDIR /${n:?b}",
                                          "WORKDIR /${n!}", "WORKDIR /'$n'", "LABEL k=${n=}",
                                          "RUN $n", "CMD '$n'"}},
                                MaxSteps - 1)}

\* The builds with ONBUILD instructions and on the base image 'onf'.
\* The Dockerfiles with EXPOSE and VOLUME.
PortDockerfiles ==
    {<<1>> \o d : d \in SeqsUpTo({i \in DOMAIN Instructions :
                                     Instructions[i].name \in {"EXPOSE", "VOLUME"}},
                                MaxSteps - 1)}

\* The Dockerfiles that change the working directory.
WorkdirDockerfiles ==
    {<<1>> \o d : d \in SeqsUpTo({i \in DOMAIN Instructions :
                                     Instructions[i].raw \in
                                         {"WORKDIR /a", "WORKDIR b", "WORKDIR ..",
                                          "WORKDIR /a/../b/", "WORKDIR ./c//d/.", "WORKDIR /"}},
                                MaxSteps - 1)}

\* The Dockerfiles that set environment variables, one of which has the
\* name of another as a prefix.
EnvDockerfiles ==
    {<<1>> \o d : d \in SeqsUpTo({i \in DOMAIN Instructions :
                                     Instructions[i].raw \in
                                         {"ENV n=1 nq=3", "ENV nq=3 n=1", "ENV n=2", "ENV q=4"}},
                                MaxSteps - 1)}

OnBuildDockerfiles ==
    SeqsUpTo({i \in DOMAIN Instructions :
                 Instructions[i].raw \in {"FROM scratch", "FROM onf", "ONBUILD RUN x"}}, MaxSteps)

\* The images docker commit starts from, in docker inspect format.
FromImages == {WorkdirImage("c1", NullId, NullId, Null), CmdImage("c8", "c1")}

\* The change lines of a docker commit.
CommitChanges ==
    SeqsUpTo({i \in DOMAIN Instructions :
                 Instructions[i].raw \in {"LABEL k=v", "WORKDIR /a", "CMD c", "ARG n",
                                          "RUN x", "FROM scratch"}}, MaxSteps)

CommitOptions ==
    [commandType |-> "commit", buildargs |-> EmptyMap, labels |-> EmptyMap,
     existingImages |-> <<>>, nocache |-> FALSE]

NoCmd == Instr("", "str", "", "")
NoErr == "<no error>"

\* The host's files, by their paths as tuples of names: the extracted build
\* context /c, the directory /cc beside it, the directory /e, and the root
\* directory /z of the image's zone.
HostFiles ==
    LET c == <<"c">>  d == <<"d">>  e == <<"e">>  f == <<"f">>  g == <<"g">>
        h == <<"h">>  k == <<"k">>  p == <<"p">>  s == <<"s">>  z == <<"z">>
    IN (<<c>> :> Dir) @@ (<<c, f>> :> File(1)) @@ (<<c, d>> :> Dir)
         @@ (<<c, d, g>> :> File(2)) @@ (<<c, d, h>> :> Dir) @@ (<<c, d, h, k>> :> File(3))
         @@ (<< <<"c", "c">> >> :> Dir) @@ (<< <<"c", "c">>, s>> :> File(4))
         @@ (<<e>> :> Dir) @@ (<<e, p>> :> File(5))
         @@ (<<z>> :> Dir)

\* The files f with node at path p.
WithNode(f, p, node) == (p :> node) @@ f

\* What /c/l of the context is a symbolic link to, when it is there.
ContextLinks ==
    {<<"f">>, <<"d">>, <<".", ".", "/", "e", "/", "p">>, <<"/", "e", "/", "p">>,
     <<".", ".", "/", "c", "c", "/", "s">>, <<".", ".", "/", "e">>, <<"n", "x">>, <<"l">>}

\* What /z/t and /z/t/h of the image are: nothing, a directory, or a
\* symbolic link left by an earlier layer.
ZoneLinks ==
    {<<"/", "e">>, <<".", ".", "/", ".", ".", "/", "e">>, <<"/">>, <<"u">>, <<"t">>,
     <<"/", ".", ".", "/", ".", ".", "/", ".", ".", "/", ".", ".", "/", ".", ".">>}

Layouts ==
    LET l == << <<"c">>, <<"l">> >>
        t == << <<"z">>, <<"t">> >>
        h == << <<"z">>, <<"t">>, <<"h">> >>
    IN {HostFiles, WithNode(HostFiles, t, Dir)}
         \cup {WithNode(HostFiles, << <<"c">> >>, DirRev),
               WithNode(HostFiles, << <<"c">>, <<"d">> >>, DirRev)}
         \cup {WithNode(HostFiles, l, Link(to)) : to \in ContextLinks}
         \cup {WithNode(HostFiles, t, Link(to)) : to \in ZoneLinks}
         \cup {WithNode(WithNode(HostFiles, t, Dir), h, Link(to)) : to \in ZoneLinks}

NoResult == [root |-> <<>>, target |-> <<>>, err |-> "", path |-> <<>>]

Init ==
    /\ \/ /\ \E opts \in Options :
                /\ builder = Builder(opts)
                /\ store = <<OnbImage>> \o opts.existingImages
          /\ allCommands \in Dockerfiles
          /\ fs = HostFiles
       \/ /\ builder = Builder(CHOOSE opts \in Options :
                                  opts.existingImages = <<>> /\ ~opts.nocache)
          /\ store = <<OnbImage>>
          /\ allCommands \in CopyDockerfiles
          /\ fs \in Layouts
       \/ /\ \E opts \in ArgOptions :
                /\ builder = Builder(opts)
                /\ store = <<OnbImage>> \o opts.existingImages
          /\ allCommands \in ArgDockerfiles
          /\ fs = HostFiles
       \/ /\ \E opts \in EntrypointOptions :
                /\ builder = Builder(opts)
                /\ store = <<OnbImage>> \o opts.existingImages
          /\ allCommands \in EntrypointDockerfiles
          /\ fs = HostFiles
       \/ /\ builder = Builder(CHOOSE opts \in Options :
                                  opts.existingImages = <<>> /\ ~opts.nocache)
          /\ store = <<OnbImage>>
          /\ allCommands \in OnBuildDockerfiles \cup PortDockerfiles \cup WorkdirDockerfiles
                                 \cup EnvDockerfiles
          /\ fs = HostFiles
       \/ /\ \E opts \in VarOptions :
                /\ builder = Builder(opts)
                /\ store = <<OnbImage>>
          /\ allCommands \in VarDockerfiles
          /\ fs = HostFiles
       \/ /\ \E opts \in LabelOptions :
                /\ builder = Builder(opts)
                /\ store = <<OnbImage>> \o opts.existingImages
          /\ allCommands \in LabelDockerfiles
          /\ fs = HostFiles
       \/ /\ builder = Builder(CommitOptions)
          /\ \E fromImage \in FromImages : store = <<fromImage>>
          /\ allCommands \in CommitChanges
          /\ fs = HostFiles
    /\ result = NoResult
    /\ pc = "constructed"
    /\ cmdIdx = 0
    /\ triggers = <<>>
    /\ inTriggers = FALSE
    /\ cmd = NoCmd
    /\ work = <<>>
    /\ pending = <<>>
    /\ calls = <<>>

(***************************************************************************)
(* The build driver: events                                                *)
(***************************************************************************)

\* this.emit('task', event): the event is recorded as emitted, and its
\* callback is the host's to invoke.  cont names the callback.
emit(b, ev, type, message) == [b EXCEPT !.emitted = Append(@, Event(ev, type, message))]
emitExtract(b, extractDir, tarfile) ==
    [b EXCEPT !.emitted = Append(@, [Event("task", "extract_tarfile", tarfile)
                                        EXCEPT !.extractDir = extractDir])]
Callback(ev, type, cont, image) == [ev |-> ev, type |-> type, cont |-> cont, image |-> image]
NoImage == Inspect("", "", DEFAULT_IMAGE_CONFIG, DEFAULT_IMAGE_CONFIG)

\* The final callback saying 'Successfully built' whatever err is.
finalCallbackM(b, err) ==
    emit(emitStdout(b, "Successfully built " \o getShortId(b.image.id) \o "\n"),
         "end", "", err)

\* The final callback of the waterfall of start(): 'Successfully built' when
\* there is no error, then 'end'.
finalCallback(b, err) ==
    emit(IF err = NoErr
         THEN emitStdout(b, "Successfully built " \o getShortId(b.image.id) \o "\n")
         ELSE b,
         "end", "", err)

\* onBuildCb of runOnBuildTriggers, through which the callback of a replayed
\* trigger's step passes.
onBuildCb(b) == setConfig(b, [b.image.config EXCEPT !.OnBuild = Null])

\* An error given to the callback of the current step: it reaches the final
\* callback of start(), through onBuildCb when the step is a replayed trigger.
Abort(b, err) ==
    /\ builder' = finalCallback(IF inTriggers THEN onBuildCb(b) ELSE b, err)
    /\ pc' = "ended"

Goto(b, p) == builder' = b /\ pc' = p

Remove(q, i) == [j \in 1..(Len(q) - 1) |-> IF j < i THEN q[j] ELSE q[j + 1]]

\* What the host remembers of a callback it invokes: the event, the error
\* it gives, how many events the builder had emitted by then, and the
\* exitCode of the result it gives for a run task.
Call(cb, err) ==
    [ev |-> cb.ev, type |-> cb.type, err |-> err, at |-> Len(builder.emitted), exitCode |-> 0]

\* The host invokes the callback of pending event i with err.
Invoke(i, err) ==
    /\ pending' = Remove(pending, i)
    /\ calls' = Append(calls, Call(pending[i], err))

\* emitTask going on with the post-hook of the step at once.
SuspendM(b, cb) ==
    /\ Goto(b, "postStep")
    /\ pending' = Append(pending, cb)

\* emitTask (and the emit of image_reprovisioned): the event is the host's,
\* and the builder returns to the event loop until the host calls back.
Suspend(b, cb) ==
    /\ Goto(b, "await")
    /\ pending' = Append(pending, cb)

HostErrors == {NoErr, "host error"}

\* Builder.prototype.start: the first function of the waterfall,
\* extractContext, emits the extract_tarfile task of the build context.
Start ==
    /\ pc = "constructed"
    /\ builder.commandType = "build"
    /\ Suspend(emitExtract(builder, contextExtractDir, "context"),
               Callback("task", "extract_tarfile", "extractContext", NoImage))
    /\ UNCHANGED <<fs, result, allCommands, store, cmdIdx, triggers, inTriggers, cmd, work, calls>>

\* The host answers the context extraction.
ExtractContextCallback ==
    \E i \in 1..Len(pending), err \in HostErrors :
        /\ pending[i].cont = "extractContext"
        /\ Invoke(i, err)
        /\ IF err # NoErr THEN Abort(builder, err) ELSE Goto(builder, "read")
        /\ UNCHANGED <<fs, result, allCommands, store, cmdIdx, triggers, inTriggers, cmd, work>>

\* The read, parse and removeIgnoredContextFiles functions of the waterfall.
ReadDockerfile ==
    /\ pc = "read"
    /\ IF allCommands = <<>>
       THEN Abort(builder, "The Dockerfile (Dockerfile) cannot be empty")
       ELSE Goto([builder EXCEPT !.totalNumSteps = Len(allCommands)], "process")
    /\ UNCHANGED <<fs, result, allCommands, store, cmdIdx, triggers, inTriggers, cmd, work, pending, calls>>

\* Builder.prototype.sendCommandDetails
sendCommandDetails(b, c) ==
    IF b.commandType = "commit" THEN b
    ELSE [b EXCEPT !.emitted = Append(@,
             [Event("message", "stdout",
                    "Step " \o ToString(b.stepNo + 1) \o " : " \o getCommandString(c) \o "\n")
                 EXCEPT !.step = b.stepNo + 1])]

\* Builder.prototype.step up to the waterfall of doStep.
step(b, c) ==
    LET b1 == [b EXCEPT !.stepNo = @ + 1]
        b2 == setNewImageId(setParentId(b1, b1.image.id))
    IN sendCommandDetails(b2, c)

\* The test of doStep letting a WORKDIR come first.
missingFromM(b, c) == b.stepNo = 0 /\ c.name \notin {"FROM", "WORKDIR"}

\* The test of doStep: the first command has to be FROM.
missingFrom(b, c) == b.stepNo = 0 /\ c.name # "FROM"

\* The error of doStep; the message has (from) between backquotes.
ProvideSourceImage == "Please provide a source image with (from) prior to commit"

\* What step and doStep do before the waterfall: on to the pre-hook, unless
\* the first instruction is not FROM.
StartStep(b, c) ==
    LET b1 == step(b, c)
    IN /\ cmd' = [c EXCEPT !.ctx = [isCached |-> FALSE, copyInfos |-> <<>>]]
       /\ IF missingFrom(b1, c)
          THEN Abort(b1, ProvideSourceImage)
          ELSE Goto(b1, "preStep")

\* commandBuildStep, the iterator of async.eachSeries in process.
CommandBuildStep ==
    /\ pc = "process"
    /\ cmdIdx < Len(allCommands)
    /\ StartStep([builder EXCEPT !.onBuildTriggers = Null], Instructions[allCommands[cmdIdx + 1]])
    /\ UNCHANGED <<fs, result, allCommands, store, cmdIdx, triggers, inTriggers, work, pending, calls>>

(***************************************************************************)
(* lib/shellparser.js                                                      *)
(***************************************************************************)
\* A ShellWord is its word and envs, character strings, and the cursor pos,
\* counted from 0 as the code counts it.  What a process function returns:
\* the string it made and where it left the cursor, or the Error it threw.
Res(out, pos) == [result |-> out, pos |-> pos, err |-> ""]
Thrown(err) == [result |-> <<>>, pos |-> 0, err |-> err]

\* The Errors of processDollar; util.format puts the modifier and the word
\* into the text.
UnsupportedModifier == "Unsupported modifier in substitution"
MissingColon == "Missing \":\" in substitution"
SubstitutionErrors == {UnsupportedModifier, MissingColon}

\* /[a-zA-Z]/ and /[0-9]/
Letters ==
    {"a", "b", "c", "d", "e", "f", "g", "h", "i", "j", "k", "l", "m", "n",
     "o", "p", "q", "r", "s", "t", "u", "v", "w", "x", "y", "z", "A", "B",
     "C", "D", "E", "F", "G", "H", "I", "J", "K", "L", "M", "N", "O", "P",
     "Q", "R", "S", "T", "U", "V", "W", "X", "Y", "Z"}
Digits == {"0", "1", "2", "3", "4", "5", "6", "7", "8", "9"}

\* ShellWord.prototype.peek: the next character, '' at the end of the word.
peek(word, pos) == IF pos = Len(word) THEN "" ELSE word[pos + 1]

\* ShellWord.prototype.next: where the cursor is after it; the character it
\* returns is the one peek gave.
next(word, pos) == IF pos = Len(word) THEN pos ELSE pos + 1

\* out += ch, where ch may be ''.
Add(out, ch) == IF ch = "" THEN out ELSE Append(out, ch)

\* ShellWord.prototype.processName, name being what was read so far.
RECURSIVE processNameFrom(_, _, _)
processNameFrom(word, pos, name) ==
    IF pos >= Len(word) THEN Res(name, pos)
    ELSE IF name = <<>> /\ peek(word, pos) \in Digits
    THEN Res(<<peek(word, pos)>>, next(word, pos))
    ELSE IF peek(word, pos) \notin Letters \cup Digits \cup {"_"} THEN Res(name, pos)
    ELSE processNameFrom(word, next(word, pos), Append(name, peek(word, pos)))

processName(word, pos) == processNameFrom(word, pos, <<>>)

\* getEnv going on to the last entry of envs that names the variable.
RECURSIVE getEnvM(_, _)
getEnvM(envs, name) ==
    IF envs = <<>> THEN <<>>
    ELSE Let(IndexOfEq(envs[Len(envs)], 1), LAMBDA idx :
             IF idx = 0
             THEN IF name = envs[Len(envs)] THEN <<>> ELSE getEnvM(DropLast(envs, 1), name)
             ELSE IF name # SubSeq(envs[Len(envs)], 1, idx - 1)
             THEN getEnvM(DropLast(envs, 1), name)
             ELSE SliceFrom(envs[Len(envs)], idx + 1))

\* ShellWord.prototype.getEnv: the value of the first entry of envs that
\* names the variable, '' when there is none.
RECURSIVE getEnv(_, _)
getEnv(envs, name) ==
    IF envs = <<>> THEN <<>>
    ELSE Let(IndexOfEq(Head(envs), 1), LAMBDA idx :
             IF idx = 0
             THEN IF name = Head(envs) THEN <<>> ELSE getEnv(Tail(envs), name)
             ELSE IF name # SubSeq(Head(envs), 1, idx - 1) THEN getEnv(Tail(envs), name)
             ELSE SliceFrom(Head(envs), idx + 1))

\* ShellWord.prototype.processSingleQuote, after the opening quote.
RECURSIVE processSingleQuoteFrom(_, _, _)
processSingleQuoteFrom(word, pos, out) ==
    IF peek(word, pos) \in {"", "'"} THEN Res(out, next(word, pos))
    ELSE processSingleQuoteFrom(word, next(word, pos), Append(out, peek(word, pos)))

processSingleQuote(word, envs, pos) == processSingleQuoteFrom(word, next(word, pos), <<>>)

RECURSIVE processStopOnFrom(_, _, _, _, _)
RECURSIVE processDoubleQuoteFrom(_, _, _, _)

\* ShellWord.prototype.processStopOn
processStopOn(word, envs, pos, stopChar) == processStopOnFrom(word, envs, pos, stopChar, <<>>)

\* ShellWord.prototype.processDollar
processDollar(word, envs, pos) ==
    IF peek(word, next(word, pos)) = "{"
    THEN Let(processName(word, next(word, next(word, pos))), LAMBDA name :
             IF peek(word, name.pos) = "}"
             THEN Res(getEnv(envs, name.result), next(word, name.pos))
             ELSE IF peek(word, name.pos) = ":"
             THEN Let(peek(word, next(word, name.pos)), LAMBDA modifier :
                  Let(processStopOn(word, envs, next(word, next(word, name.pos)), "}"),
                      LAMBDA w :
                          IF w.err # "" THEN w
                          ELSE Let(getEnv(envs, name.result), LAMBDA newValue :
                                   IF modifier = "+"
                                   THEN Res(IF newValue # <<>> THEN w.result ELSE newValue, w.pos)
                                   ELSE IF modifier = "-"
                                   THEN Res(IF newValue = <<>> THEN w.result ELSE newValue, w.pos)
                                   ELSE Thrown(UnsupportedModifier))))
             ELSE Thrown(MissingColon))
    ELSE Let(processName(word, next(word, pos)), LAMBDA name :
             IF name.result = <<>> THEN Res(<<"$">>, name.pos)
             ELSE Res(getEnv(envs, name.result), name.pos))

\* ShellWord.prototype.processDoubleQuote
processDoubleQuote(word, envs, pos) == processDoubleQuoteFrom(word, envs, next(word, pos), <<>>)

\* The loop of processDoubleQuote, out being what was made so far.
processDoubleQuoteFrom(word, envs, pos, out) ==
    IF pos >= Len(word) THEN Res(out, pos)
    ELSE IF peek(word, pos) = "\"" THEN Res(out, next(word, pos))
    ELSE IF peek(word, pos) = "$"
    THEN Let(processDollar(word, envs, pos), LAMBDA r :
             IF r.err # "" THEN r
             ELSE processDoubleQuoteFrom(word, envs, r.pos, out \o r.result))
    ELSE IF peek(word, pos) # "\\"
    THEN processDoubleQuoteFrom(word, envs, next(word, pos), Append(out, peek(word, pos)))
    ELSE IF peek(word, next(word, pos)) = ""
    THEN processDoubleQuoteFrom(word, envs, next(word, pos), out)
    ELSE IF peek(word, next(word, pos)) \in {"\"", "$"}
    THEN processDoubleQuoteFrom(word, envs, next(word, next(word, pos)),
                                Append(out, peek(word, next(word, pos))))
    ELSE processDoubleQuoteFrom(word, envs, next(word, pos), Append(out, "\\"))

\* The loop of processStopOn, out being what was made so far.
processStopOnFrom(word, envs, pos, stopChar, out) ==
    IF pos >= Len(word) THEN Res(out, pos)
    ELSE IF peek(word, pos) = stopChar THEN Res(out, next(word, pos))
    ELSE IF peek(word, pos) \in {"'", "\"", "$"}
    THEN Let(CASE peek(word, pos) = "'" -> processSingleQuote(word, envs, pos)
               [] peek(word, pos) = "\"" -> processDoubleQuote(word, envs, pos)
               [] OTHER -> processDollar(word, envs, pos),
             LAMBDA r :
                 IF r.err # "" THEN r
                 ELSE processStopOnFrom(word, envs, r.pos, stopChar, out \o r.result))
    ELSE IF peek(word, pos) = "\\"
    THEN processStopOnFrom(word, envs, next(word, next(word, pos)), stopChar,
                           Add(out, peek(word, next(word, pos))))
    ELSE processStopOnFrom(word, envs, next(word, pos), stopChar,
                           Append(out, peek(word, pos)))

\* processWord stopping at the first closing brace.
processWordM(word, env) == processStopOn(word, env, 0, "}")

\* processWord(word, env)
processWord(word, env) == processStopOn(word, env, 0, "")

(***************************************************************************)
(* Variable replacement                                                    *)
(***************************************************************************)
\* The characters of the names of build-args, which the model keeps as
\* TLA+ strings.
Chars(s) ==
    CASE s = "HTTP_PROXY" -> <<"H", "T", "T", "P", "_", "P", "R", "O", "X", "Y">>
      [] s = "HTTPS_PROXY" -> <<"H", "T", "T", "P", "S", "_", "P", "R", "O", "X", "Y">>
      [] s = "FTP_PROXY" -> <<"F", "T", "P", "_", "P", "R", "O", "X", "Y">>
      [] s = "NO_PROXY" -> <<"N", "O", "_", "P", "R", "O", "X", "Y">>
      [] s = "http_proxy" -> <<"h", "t", "t", "p", "_", "p", "r", "o", "x", "y">>
      [] s = "https_proxy" -> <<"h", "t", "t", "p", "s", "_", "p", "r", "o", "x", "y">>
      [] s = "ftp_proxy" -> <<"f", "t", "p", "_", "p", "r", "o", "x", "y">>
      [] s = "no_proxy" -> <<"n", "o", "_", "p", "r", "o", "x", "y">>
      [] s = "n" -> <<"n">>
      [] s = "q" -> <<"q">>
      [] s = "nq" -> <<"n", "q">>
      [] s = "PATH" -> <<"P", "A", "T", "H">>

DefaultPath ==
    <<"P", "A", "T", "H", "=", "/", "u", "s", "r", "/", "l", "o", "c",
      "a", "l", "/", "s", "b", "i", "n", ":", "/", "u", "s", "r", "/", "l",
      "o", "c", "a", "l", "/", "b", "i", "n", ":", "/", "u", "s", "r", "/",
      "s", "b", "i", "n", ":", "/", "u", "s", "r", "/", "b", "i", "n", ":",
      "/", "s", "b", "i", "n", ":", "/", "b", "i", "n">>

\* getMergedEnvArgArray's test of one argMap key against env.
ArgInEnv(env, key) ==
    \E i \in 1..Len(env) :
        IF Len(env[i]) <= Len(key) THEN key = env[i]
        ELSE SubSeq(env[i], 1, Len(key) + 1) = Append(key, "=")

\* The forEach of getMergedEnvArgArray over the keys that are left.
RECURSIVE AddArgs(_, _, _)
AddArgs(env, keys, argMap) ==
    IF keys = <<>> THEN env
    ELSE AddArgs(IF ArgInEnv(env, Chars(Head(keys))) THEN env
                 ELSE IF IsNull(Get(argMap, Head(keys))) THEN Append(env, Chars(Head(keys)))
                 ELSE Append(env, Chars(Head(keys)) \o <<"=">> \o Val(Get(argMap, Head(keys)))),
                 Tail(keys), argMap)

\* getMergedEnvArgArray with the ARG entries before those of env.
getMergedEnvArgArrayM(envArray, argMap) ==
    AddArgs(<<>>, Keys(argMap), argMap) \o envArray

\* getMergedEnvArgArray
getMergedEnvArgArray(envArray, argMap) ==
    AddArgs(IF \E i \in 1..Len(envArray) : StartsWith(envArray[i], <<"P", "A", "T", "H", "=">>)
            THEN envArray
            ELSE Append(envArray, DefaultPath),
            Keys(argMap), argMap)

\* config.Env || []
EnvOrEmpty(config) == IF IsNull(config.Env) THEN <<>> ELSE Val(config.Env)

\* The forEach of addConfigEnvArray over the keys of args: an entry of arr
\* that is key, '=' and a value is replaced, the first of them, and
\* otherwise key=value is pushed.
RECURSIVE addEnvEntries(_, _)
addEnvEntries(arr, args) ==
    IF args = <<>> THEN arr
    ELSE LET key == Chars(Head(args)[1])
             entry == key \o <<"=">> \o Head(args)[2]
             found == {i \in 1..Len(arr) : /\ Len(arr[i]) > Len(key)
                                           /\ arr[i][Len(key) + 1] = "="
                                           /\ SubSeq(arr[i], 1, Len(key)) = key}
         IN addEnvEntries(IF found # {}
                          THEN [arr EXCEPT ![CHOOSE i \in found : \A j \in found : i <= j]
                                               = entry]
                          ELSE Append(arr, entry),
                          Tail(args))

\* addConfigEnvArray taking for existing the first entry that starts with
\* the key, whatever follows it.
RECURSIVE addEnvEntriesM(_, _)
addEnvEntriesM(arr, args) ==
    IF args = <<>> THEN arr
    ELSE LET key == Chars(Head(args)[1])
             entry == key \o <<"=">> \o Head(args)[2]
             found == {i \in 1..Len(arr) : /\ Len(arr[i]) >= Len(key)
                                           /\ SubSeq(arr[i], 1, Len(key)) = key}
         IN addEnvEntriesM(IF found # {}
                           THEN [arr EXCEPT ![CHOOSE i \in found : \A j \in found : i <= j]
                                                = entry]
                           ELSE Append(arr, entry),
                           Tail(args))
addConfigEnvArrayM(b, args) ==
    setConfig(b, [b.image.config EXCEPT
                     !.Env = Some(addEnvEntriesM(EnvOrEmpty(b.image.config), args))])

\* Builder.prototype.addConfigEnvArray(args, 'Env')
addConfigEnvArray(b, args) ==
    setConfig(b, [b.image.config EXCEPT
                     !.Env = Some(addEnvEntries(EnvOrEmpty(b.image.config), args))])

\* Builder.prototype.cmdEnv
cmdEnv(b, c) == addConfigEnvArray(b, c.args.v)

\* Builder.prototype.addConfigArrayAsMap(args, propName): every one of args
\* becomes a key of the map, with an empty object.
RECURSIVE putAll(_, _)
putAll(map, args) ==
    IF args = <<>> THEN map ELSE putAll(Put(map, Head(args), EmptyMap), Tail(args))
addConfigArrayAsMap(b, args, propName) ==
    LET config == b.image.config
        map == IF IsNull(config[propName]) THEN EmptyMap ELSE Val(config[propName])
    IN setConfig(b, [config EXCEPT ![propName] = Some(putAll(map, args))])

\* String.prototype.toLowerCase, for the capital letters of the arguments of
\* the model's EXPOSE instructions.
toLowerCase(s) ==
    [i \in 1..Len(s) |-> CASE s[i] = "T" -> "t" [] s[i] = "C" -> "c" [] s[i] = "P" -> "p"
                            [] s[i] = "U" -> "u" [] s[i] = "D" -> "d" [] OTHER -> s[i]]

\* Builder.prototype.cmdExposePreFn: the new cmd.args
cmdExposePreFn(c) == [i \in 1..Len(c.args.v) |-> toLowerCase(c.args.v[i])]

\* parseInt(s, 10) of a string with no white space and no sign: the number
\* of its leading digits, and Null for NaN when it has none.
DigitValue(ch) == CHOOSE n \in 0..9 : <<"0", "1", "2", "3", "4", "5", "6", "7", "8", "9">>[n + 1] = ch
RECURSIVE parseDigits(_, _)
parseDigits(s, n) ==
    IF s = <<>> \/ Head(s) \notin Digits THEN n
    ELSE parseDigits(Tail(s), 10 * n + DigitValue(Head(s)))
parseInt(s) == IF s = <<>> \/ Head(s) \notin Digits THEN Null ELSE Some(parseDigits(s, 0))

\* What expandPortArgsMap gives for one argument: its ports, or the error it
\* sets.
Ports(ports) == [err |-> "", ports |-> ports]
InvalidPort(port) == [err |-> "Invalid containerPort: " \o Str(port), ports |-> <<>>]

\* expandPortArgsMap taking a range for the name of one port.
expandPortArgsMapM(port0) ==
    LET sp == Split(port0, "/")
    IN IF Len(sp) >= 2 THEN Ports(<<Str(sp[1]) \o "/" \o Str(sp[2])>>)
       ELSE Ports(<<Str(port0) \o "/tcp">>)

\* expandPortArgsMap of cmdExpose
expandPortArgsMap(port0) ==
    LET sp == Split(port0, "/")
        port == IF Len(sp) >= 2 THEN sp[1] ELSE port0
        proto == IF Len(sp) >= 2 THEN Str(sp[2]) ELSE "tcp"
        range == Split(port, "-")
        begin == parseInt(range[1])
        end == parseInt(range[2])
    IN IF Len(range) >= 2
       THEN IF IsNull(begin) \/ IsNull(end) THEN Ports(<<>>)
            ELSE IF Val(end) < Val(begin) THEN InvalidPort(port)
            ELSE Ports([i \in 1..(Val(end) - Val(begin) + 1) |->
                           ToString(Val(begin) + i - 1) \o "/" \o proto])
       ELSE Ports(<<Str(port) \o "/" \o proto>>)

\* cmd.args.map(expandPortArgsMap) and the flattening of what it gives: err
\* is the one that was set last.
RECURSIVE expandPorts(_, _)
expandPorts(args, done) ==
    IF args = <<>> THEN done
    ELSE Let(expandPortArgsMap(Head(args)), LAMBDA one :
             expandPorts(Tail(args), [err |-> IF one.err # "" THEN one.err ELSE done.err,
                                      ports |-> done.ports \o one.ports]))

\* Builder.prototype.cmdExpose: the error it calls back with, and the
\* builder when there is none.
cmdExposeErr(c) == expandPorts(c.args.v, Ports(<<>>)).err
cmdExpose(b, c) == addConfigArrayAsMap(b, expandPorts(c.args.v, Ports(<<>>)).ports, "ExposedPorts")

\* Builder.prototype.cmdVolume, likewise.
cmdVolumeErr(c) ==
    IF c.args.v = <<>> \/ c.args.v[1] = <<>> THEN "Volume specified can not be an empty string"
    ELSE ""
cmdVolume(b, c) == addConfigArrayAsMap(b, MapStr(c.args.v), "Volumes")

\* cmd.raw.search of one of $ ' " and backslash.  raw is the instruction's
\* name, a space and the arguments as they are written; no name holds one of
\* the four, and no argument the model keeps as a TLA+ string does.
HasSpecial(text) == \E i \in 1..Len(text) : text[i] \in {"\\", "$", "'", "\""}
rawSearch(c) ==
    CASE c.args.t = "text" -> HasSpecial(c.args.v)
      [] c.args.t = "texts" -> \E i \in 1..Len(c.args.v) : HasSpecial(c.args.v[i])
      [] c.args.t = "obj" -> \E i \in 1..Len(c.args.v) : HasSpecial(c.args.v[i][2])
      [] OTHER -> FALSE

\* cmd.args.map(processWord), stopping at the first word that throws.
RECURSIVE processWords(_, _, _)
processWords(words, env, done) ==
    IF words = <<>> THEN Res(done, 0)
    ELSE Let(processWord(Head(words), env), LAMBDA r :
             IF r.err # "" THEN r
             ELSE processWords(Tail(words), env, Append(done, r.result)))

\* The forEach over the keys of an args object, likewise.
RECURSIVE processValues(_, _, _)
processValues(map, env, done) ==
    IF map = <<>> THEN Res(done, 0)
    ELSE Let(processWord(Head(map)[2], env), LAMBDA r :
             IF r.err # "" THEN r
             ELSE processValues(Tail(map), env, Append(done, <<Head(map)[1], r.result>>)))

\* Builder.prototype.updateCommandVariables: the new cmd.args in result, or
\* the Error that processWord threw.
updateCommandVariables(b, c) ==
    IF ~rawSearch(c) THEN Res(c.args.v, 0)
    ELSE Let(getMergedEnvArgArray(IF IsNull(b.image.config.Env) THEN <<>>
                                  ELSE Val(b.image.config.Env),
                                  b.buildArgsPlusDefaults),
             LAMBDA env :
                 CASE c.args.t = "texts" -> processWords(c.args.v, env, <<>>)
                   [] c.args.t = "text" -> processWord(c.args.v, env)
                   [] OTHER -> processValues(c.args.v, env, <<>>))

\* cmdAllowsVariables with RUN in its list.
cmdAllowsVariablesM(c) ==
    c.name \in {"ADD", "ARG", "COPY", "ENV", "EXPOSE", "LABEL", "ONBUILD", "RUN",
                "STOPSIGNAL", "USER", "VOLUME", "WORKDIR"}

\* Builder.prototype.cmdAllowsVariables
cmdAllowsVariables(c) ==
    c.name \in {"ADD", "ARG", "COPY", "ENV", "EXPOSE", "LABEL", "ONBUILD",
                "STOPSIGNAL", "USER", "VOLUME", "WORKDIR"}

\* cmdAddPreFn, the preFn of ADD and COPY: what it gives to its callback,
\* and sets as cmd.ctx.copyInfos.
cmdAddPreFn(b, f, c) == getCopyInfo(b, f, c)

\* Builder.prototype.doPreStep: the CLI labels on the last step, the
\* variables of the arguments, then the instruction's preFn.  An Error that
\* updateCommandVariables throws is caught nowhere: it leaves doPreStep, the
\* waterfall of step() and the builder, and no callback is called.
DoPreStep ==
    /\ pc = "preStep"
    /\ LET b1 == IF isLastStep(builder) /\ builder.cliLabels # EmptyMap
                 THEN addConfigMap(builder, builder.cliLabels)
                 ELSE builder
       IN Let(IF cmdAllowsVariables(cmd) THEN updateCommandVariables(b1, cmd)
              ELSE Res(cmd.args.v, 0),
              LAMBDA upd :
                  IF upd.err # ""
                  THEN Goto(b1, "thrown") /\ cmd' = cmd
                  ELSE Let(IF cmd.name \in {"CMD", "ENTRYPOINT", "RUN"}
                           THEN fixShellCommandArguments([cmd EXCEPT !.args.v = upd.result])
                           ELSE [cmd EXCEPT !.args.v = upd.result],
                           LAMBDA cmd0 :
                           Let(IF cmd.name = "EXPOSE"
                               THEN [cmd0 EXCEPT !.args.v = cmdExposePreFn(cmd0)]
                               ELSE cmd0,
                           LAMBDA cmd1 :
                               IF cmd.name \in {"ADD", "COPY"}
                               THEN Let(cmdAddPreFn(b1, fs, cmd1), LAMBDA info :
                                        IF info.thrown
                                        THEN Goto(b1, "thrown") /\ cmd' = cmd1
                                        ELSE IF info.err # ""
                                        THEN Abort(b1, info.err) /\ cmd' = cmd1
                                        ELSE Goto(b1, "checkCache")
                                               /\ cmd' = [cmd1 EXCEPT !.ctx.copyInfos = info.copyInfos])
                               ELSE Goto(b1, "checkCache") /\ cmd' = cmd1)))
    /\ UNCHANGED <<fs, result, allCommands, store, cmdIdx, triggers, inTriggers, work, pending, calls>>

\* Builder.prototype.reprovisionImage: the image_reprovision task.
reprovisionImage(b, imageName) == emit(b, "task", "image_reprovision", imageName)

\* The test of doCheckCache without the look at the last instruction.
needsReprovisionM(layers, lastCmdWasCached) ==
    /\ layers # <<>>
    /\ lastCmdWasCached

\* The test of doCheckCache for going back to the last image before a step
\* that is not cached.
needsReprovision(layers, lastCmdWasCached) ==
    /\ layers # <<>>
    /\ lastCmdWasCached
    /\ layers[Len(layers)].cmd.name # "FROM"

\* Builder.prototype.doCheckCache
DoCheckCache ==
    /\ pc = "checkCache"
    /\ IF cmd.name = "FROM" \/ ~isCachingAllowed(builder)
       THEN Goto(builder, "actualStep") /\ UNCHANGED <<cmd, pending>>
       ELSE LET cachedImage == getCachedImage(builder, cmd)
                lastCmdWasCached == builder.cacheLastCmdCached
                layers == builder.layers
            IN IF cachedImage = 0
               THEN LET b1 == [builder EXCEPT !.cacheLastCmdCached = FALSE]
                    IN IF needsReprovision(layers, lastCmdWasCached)
                       THEN /\ Suspend(reprovisionImage(b1, b1.image.parent),
                                       Callback("task", "image_reprovision", "checkCache",
                                                [NoImage EXCEPT !.Id = b1.image.parent]))
                            /\ UNCHANGED cmd
                       ELSE Goto(b1, "actualStep") /\ UNCHANGED <<cmd, pending>>
               ELSE /\ cmd' = [cmd EXCEPT !.ctx.isCached = TRUE]
                    /\ Goto(setFromInspectImage(
                               emitStdout(builder, " ---> Using cache\n"),
                               builder.existingImages[cachedImage], cachedImage),
                            "actualStep")
                    /\ UNCHANGED pending
    /\ UNCHANGED <<fs, result, allCommands, store, cmdIdx, triggers, inTriggers, work, calls>>

\* The images the host has under a name or an id.
HostImages(name) ==
    {store[i] : i \in {j \in 1..Len(store) : store[j].Id = name}}
        \cup (IF name = "onb" THEN {OnbImage} ELSE {})
        \cup (IF name = "onf" THEN {OnfImage} ELSE {})

\* reprovisionCb of reprovisionImage: the host answers an image_reprovision
\* task, with an error or with the image in docker inspect format.
ReprovisionCallback ==
    \E i \in 1..Len(pending) :
        /\ pending[i].type = "image_reprovision"
        /\ \/ /\ Abort(builder, "host error")
              /\ Invoke(i, "host error")
           \/ \E img \in HostImages(pending[i].image.Id) :
                 LET b1 == [builder EXCEPT !.image.config = img.Config,
                                           !.image.container_config = Some(img.ContainerConfig),
                                           !.configRef = 0,
                                           !.ccRef = 0]
                     b2 == IF isLastStep(b1) /\ b1.cliLabels # EmptyMap
                           THEN addConfigMap(b1, b1.cliLabels)
                           ELSE b1
                 IN /\ Goto(emit(b2, "image_reprovisioned", "", cmd.name), "await")
                    /\ pending' = Append(Remove(pending, i),
                           Callback("image_reprovisioned", "", pending[i].cont, img))
                    /\ calls' = Append(calls, Call(pending[i], NoErr))
        /\ UNCHANGED <<fs, result, allCommands, store, cmdIdx, triggers, inTriggers, cmd, work>>

\* reprovisionImageEventCb: the host answers image_reprovisioned, and the
\* callback given to reprovisionImage runs: the one of handleFromImage or
\* the one of doCheckCache.
ImageReprovisionedCallback ==
    \E i \in 1..Len(pending), err2 \in HostErrors :
        /\ pending[i].ev = "image_reprovisioned"
        /\ Invoke(i, err2)
        /\ IF err2 # NoErr
           THEN Abort(builder, err2)
           ELSE IF pending[i].cont = "handleFromImage"
           THEN LET config == builder.image.config
                    b1 == setImageId(builder, pending[i].image.Id)
                    b2 == setParentId(b1, IF config.Image \in {"", NullId, Undefined}
                                          THEN NullId ELSE config.Image)
                    b3 == [b2 EXCEPT !.onBuildTriggers = config.OnBuild]
                IN Goto(setConfig(b3, [b3.image.config EXCEPT !.OnBuild = Null]), "postStep")
           ELSE Goto(setParentId(builder, builder.image.parent), "actualStep")
        /\ UNCHANGED <<fs, result, allCommands, store, cmdIdx, triggers, inTriggers, cmd, work>>

\* The event of a run task: message is its cmd.
RunTask(c, env, workdir, user) ==
    [Event("task", "run", JoinStr(c.args.v, " "))
        EXCEPT !.env = env, !.workdir = workdir, !.user = user]

\* runContainerCommand with every build-arg that is declared or known by
\* default in the env, whether it has a value or not.
runContainerCommandM(b, c) ==
    LET config == b.image.config
    IN [emitStdout(b, " ---> Running in zone\n") EXCEPT !.emitted =
           Append(@, RunTask(c, getMergedEnvArgArray(EnvOrEmpty(config),
                                                     b.buildArgsPlusDefaults),
                             IF config.WorkingDir = <<>> THEN <<"/">> ELSE config.WorkingDir,
                             config.User))]

\* Builder.prototype.runContainerCommand: the run task.
runContainerCommand(b, c) ==
    LET config == b.image.config
    IN [emitStdout(b, " ---> Running in zone\n") EXCEPT !.emitted =
           Append(@, RunTask(c, getMergedEnvArgArray(EnvOrEmpty(config), b.buildArgs),
                             IF config.WorkingDir = <<>> THEN <<"/">> ELSE config.WorkingDir,
                             config.User))]

\* Builder.prototype.cmdFrom for the scratch image.
cmdFrom(b) == setParentId(setImageId(b, NullId), NullId)

\* The fn of commandMap for the instructions that call back at once.
cmdHandler(b, c) ==
    CASE c.name = "ARG" -> cmdArg(b, c)
      [] c.name = "CMD" -> cmdCmd(b, c)
      [] c.name = "ENTRYPOINT" -> cmdEntrypoint(b, c)
      [] c.name = "ENV" -> cmdEnv(b, c)
      [] c.name = "EXPOSE" -> cmdExpose(b, c)
      [] c.name = "VOLUME" -> cmdVolume(b, c)
      [] c.name = "LABEL" -> cmdLabel(b, c)
      [] c.name = "MAINTAINER" -> cmdMaintainer(b, c)
      [] c.name = "ONBUILD" -> cmdOnBuild(b, c)
      [] c.name = "USER" -> cmdUser(b, c)
      [] c.name = "WORKDIR" -> cmdWorkdir(b, c)
      [] c.name = "FROM" -> cmdFrom(b)

\* Builder.prototype.performCopy for COPY: async.eachSeries(copyInfos,
\* copyFn), as the copyInfos that doCopy is to be called with, in order.
performCopy(copyInfos) == doCopyEach(copyInfos)

\* The test of doActualStep with no exception for ARG.
isAlreadyAvailableM(c) == c.ctx.isCached

\* The test of doActualStep for calling back at once: the image of the step
\* is there already, and the instruction is not ARG.
isAlreadyAvailable(c) == c.ctx.isCached /\ c.name # "ARG"

\* Builder.prototype.doActualStep
DoActualStep ==
    /\ pc = "actualStep"
    /\ work' = IF cmd.name \in {"ADD", "COPY"} /\ ~cmd.ctx.isCached
                THEN performCopy(cmd.ctx.copyInfos) ELSE work
    /\ IF isAlreadyAvailable(cmd)
       THEN Goto(builder, "postStep") /\ UNCHANGED pending
       ELSE IF cmd.name \in {"ADD", "COPY"}
       THEN Goto(builder, "copy") /\ UNCHANGED pending
       ELSE IF cmd.name = "FROM" /\ cmd.args.v # scratch
       THEN Suspend(reprovisionImage(builder, cmd.args.v),
                    Callback("task", "image_reprovision", "handleFromImage",
                             [NoImage EXCEPT !.Id = cmd.args.v]))
       ELSE IF cmd.name = "RUN"
       THEN Suspend(runContainerCommand(builder, cmd), Callback("task", "run", "cmdRun", NoImage))
       ELSE IF cmd.name = "ARG" /\ Len(cmd.args.v) # 1
       THEN Abort(builder, "ARG requires exactly one argument definition")
              /\ UNCHANGED pending
       ELSE IF cmd.name = "EXPOSE" /\ cmdExposeErr(cmd) # ""
       THEN Abort(builder, cmdExposeErr(cmd)) /\ UNCHANGED pending
       ELSE IF cmd.name = "VOLUME" /\ cmdVolumeErr(cmd) # ""
       THEN Abort(builder, cmdVolumeErr(cmd)) /\ UNCHANGED pending
       ELSE Goto(cmdHandler(builder, cmd), "postStep") /\ UNCHANGED pending
    /\ UNCHANGED <<fs, result, allCommands, store, cmdIdx, triggers, inTriggers, cmd, calls>>

\* Builder.prototype.doCopy for the next copyInfo: doCopyOneDirectory makes
\* the directory, doCopyOneFile makes the parent directory and emits the
\* extract_tarfile task of the file; the callback of cmdAdd when nothing is
\* left.
DoCopy ==
    /\ pc = "copy"
    /\ IF work = <<>>
       THEN Goto(builder, "postStep") /\ UNCHANGED <<work, pending>>
       ELSE LET ci == Head(work)
            IN /\ work' = Tail(work)
               /\ Let(IF ci.contextPathIsDirectory THEN zoneDestPath(ci)
                      ELSE pathDirname(zoneDestPath(ci)),
                      LAMBDA dir :
                      Let(mkdirpChown(fs, dir), LAMBDA err :
                          IF err # ""
                          THEN Abort(builder, err) /\ UNCHANGED pending
                          ELSE IF ci.contextPathIsDirectory
                          THEN Goto(builder, "copy") /\ UNCHANGED pending
                          ELSE Suspend(emitExtract(builder, dir,
                                                   Str(SliceFrom(containerAbsPath(ci), 2))),
                                       Callback("task", "extract_tarfile", "onExtractedCb",
                                                NoImage))))
    /\ UNCHANGED <<fs, result, allCommands, store, cmdIdx, triggers, inTriggers, cmd, calls>>

\* onExtractedCb of doCopyOneFile: the host answers the extract_tarfile
\* task of a file, and fs.chown of the copied file calls back.
ExtractedCallback ==
    \E i \in 1..Len(pending), err2 \in HostErrors :
        /\ pending[i].cont = "onExtractedCb"
        /\ Invoke(i, err2)
        /\ IF err2 # NoErr THEN Abort(builder, err2) ELSE Goto(builder, "copy")
        /\ UNCHANGED <<fs, result, allCommands, store, cmdIdx, triggers, inTriggers, cmd, work>>

ExitCodes == {0, 1}

\* cb taking no notice of the exit code.
cbM(c, err, exitCode) == err

\* cb of runContainerCommand: the error it gives to the callback of the step.
cb(c, err, exitCode) ==
    IF err = NoErr /\ exitCode # 0
    THEN "The command '" \o JoinStr(c.args.v, " ") \o "' returned a non-zero code: "
            \o ToString(exitCode)
    ELSE err

\* The host answers the run task, with an error or with a result.
RunCallback ==
    \E i \in 1..Len(pending), err \in HostErrors, exitCode \in ExitCodes :
        /\ pending[i].cont = "cmdRun"
        /\ err = NoErr \/ exitCode = 0
        /\ pending' = Remove(pending, i)
        /\ calls' = Append(calls, [Call(pending[i], err) EXCEPT !.exitCode = exitCode])
        /\ IF cb(cmd, err, exitCode) # NoErr
           THEN Abort(builder, cb(cmd, err, exitCode))
           ELSE Goto(builder, "postStep")
        /\ UNCHANGED <<fs, result, allCommands, store, cmdIdx, triggers, inTriggers, cmd, work>>

\* The post-hook leaving the Cmd of the container_config as the config's.
doPostStepM(b, c) ==
    storeImageLayer([b EXCEPT !.image.container_config = Some(b.image.config), !.ccRef = 0], c)

\* The post-hook storing no layer for a step served from the cache.
doPostStepCachedM(b, c) ==
    IF c.ctx.isCached
    THEN [b EXCEPT !.image.container_config = Some(b.image.config), !.ccRef = 0]
    ELSE storeImageLayer(
             setContainerConfig(
                 [b EXCEPT !.image.container_config = Some(b.image.config), !.ccRef = 0],
                 [b.image.config EXCEPT !.Cmd = Some(getNopCmdForCommand(b, c))]), c)

\* Builder.prototype.doPostStep
doPostStep(b, c) ==
    LET b1 == [b EXCEPT !.image.container_config = Some(b.image.config), !.ccRef = 0]
        b2 == IF ~c.ctx.isCached
              THEN setContainerConfig(b1, [Val(b1.image.container_config) EXCEPT
                                             !.Cmd = Some(getNopCmdForCommand(b1, c))])
              ELSE b1
    IN storeImageLayer(b2, c)

\* Builder.prototype.sendLayerId
sendLayerId(b) ==
    IF b.image.id = NullId THEN emitStdout(b, " --->\n")
    ELSE emitStdout(b, " ---> " \o getShortId(b.image.id) \o "\n")

\* The elements of arr from the last to the first.
eachSeriesM(arr) == [i \in 1..Len(arr) |-> arr[Len(arr) + 1 - i]]

\* async.eachSeries(arr, ...): the order in which it hands the elements of
\* arr to its iterator.
eachSeries(arr) == arr

\* The post-hook of the step, then _doStepCb of step, then what the callback
\* given to step does: for an instruction of the Dockerfile stepCb hands the
\* triggers the step has lifted to runOnBuildTriggers, for a replayed trigger
\* async.eachSeries goes on to the next one.
DoPostStep ==
    /\ pc = "postStep"
    /\ LET b1 == sendLayerId(doPostStep(builder, cmd))
           onBuildTriggers == b1.onBuildTriggers
           b2 == [b1 EXCEPT !.onBuildTriggers = Null]
       IN IF inTriggers
          THEN Goto(b1, "triggers") /\ UNCHANGED <<cmdIdx, triggers, inTriggers>>
          ELSE IF IsNull(onBuildTriggers) \/ Val(onBuildTriggers) = <<>>
          THEN /\ Goto(b2, "process")
               /\ cmdIdx' = cmdIdx + 1
               /\ UNCHANGED <<triggers, inTriggers>>
          ELSE /\ Goto(emitStdout(setConfig(b2, [b2.image.config EXCEPT !.OnBuild = Null]),
                                   "# Executing " \o ToString(Len(Val(onBuildTriggers)))
                                       \o " build triggers\n"),
                        "triggers")
               /\ triggers' = eachSeries(Val(onBuildTriggers))
               /\ inTriggers' = TRUE
               /\ UNCHANGED cmdIdx
    /\ UNCHANGED <<fs, result, allCommands, store, cmd, work, pending, calls>>

\* The iterator of async.eachSeries in runOnBuildTriggers, and onBuildCb
\* when no trigger is left.
RunNextTrigger ==
    /\ pc = "triggers"
    /\ IF triggers = <<>>
       THEN /\ Goto(onBuildCb(builder), "process")
            /\ cmdIdx' = cmdIdx + 1
            /\ inTriggers' = FALSE
            /\ UNCHANGED <<triggers, cmd>>
       ELSE LET commands == parseLine(Head(triggers))
            IN /\ triggers' = Tail(triggers)
               /\ UNCHANGED <<cmdIdx, inTriggers>>
               /\ IF Len(commands) # 1
                  THEN Abort(builder, "Expected 1 command for OnBuild trigger")
                         /\ UNCHANGED cmd
                  ELSE StartStep(builder, commands[1])
    /\ UNCHANGED <<fs, result, allCommands, store, work, pending, calls>>

\* checkBuildArgs and checkImagesCreated, the last functions of the
\* waterfall of start(), and its final callback.
Finish ==
    /\ pc = "process"
    /\ cmdIdx = Len(allCommands)
    /\ LET layers == builder.layers
           err == IF builder.cliBuildArgs # EmptyMap
                  THEN "One or more build-args [" \o JoinStr(Keys(builder.cliBuildArgs), ",")
                          \o "] were not consumed, failing build."
                  ELSE IF \/ Len(layers) = 0
                          \/ /\ Len(layers) = 1
                             /\ layers[1].cmd.name = "FROM"
                             /\ layers[1].cmd.args.v = scratch
                  THEN "No image was generated. Is your Dockerfile empty?"
                  ELSE NoErr
       IN /\ builder' = finalCallback(builder, err)
          /\ pc' = "ended"
    /\ UNCHANGED <<fs, result, allCommands, store, cmdIdx, triggers, inTriggers, cmd, work, pending, calls>>

(***************************************************************************)
(* docker commit                                                           *)
(***************************************************************************)
\* verifyCommands without ARG among the forbidden instructions.
forbiddenCommandsM(commands) ==
    SelectSeq(commands, LAMBDA c : c.name \in {"ADD", "COPY", "FROM", "MAINTAINER", "RUN"})

\* forbiddenCommands of verifyCommands: the instructions a commit may not
\* have among its changes.
forbiddenCommands(commands) ==
    SelectSeq(commands,
              LAMBDA c : c.name \in {"ADD", "ARG", "COPY", "FROM", "MAINTAINER", "RUN"})

\* Builder.prototype.startCommit(fromImage, changes) up to process: the
\* builder's image is a copy of fromImage, stored as the first layer, and the
\* changes are parsed and verified; the final callback emits 'end'.
StartCommit ==
    /\ pc = "constructed"
    /\ builder.commandType = "commit"
    /\ LET b1 == storeImageLayer(setFromInspectImage(builder, store[1], 0), NoCmd)
           b2 == [b1 EXCEPT !.totalNumSteps = Len(allCommands)]
           forbidden == forbiddenCommands([i \in 1..Len(allCommands) |->
                                              Instructions[allCommands[i]]])
       IN IF Len(forbidden) > 0
          THEN /\ builder' = emit(b2, "end", "",
                                   forbidden[1].name \o " is not a valid change command")
               /\ pc' = "ended"
          ELSE Goto(b2, "commit")
    /\ UNCHANGED <<fs, result, allCommands, store, cmdIdx, triggers, inTriggers, cmd, work, pending, calls>>

\* The iterator of async.eachSeries in process of startCommit: doActualStep
\* of the next change, with no pre-hook before it, so that the arguments of
\* a CMD or ENTRYPOINT in shell form are a string still and the assertion of
\* the hook throws.  verifyCommands has let through none of the instructions
\* whose hook emits a task.
CommitStep ==
    /\ pc = "commit"
    /\ cmdIdx < Len(allCommands)
    /\ LET c == Instructions[allCommands[cmdIdx + 1]]
       IN /\ cmd' = c
          /\ IF c.name \in {"CMD", "ENTRYPOINT"} /\ ~IsArray(c.args)
             THEN Goto(builder, "thrown") /\ UNCHANGED cmdIdx
             ELSE IF c.name = "ARG" /\ Len(c.args.v) # 1
             THEN /\ builder' = emit(builder, "end", "",
                                      "ARG requires exactly one argument definition")
                  /\ pc' = "ended"
                  /\ UNCHANGED cmdIdx
             ELSE /\ Goto(cmdHandler(builder, c), "commit")
                  /\ cmdIdx' = cmdIdx + 1
    /\ UNCHANGED <<fs, result, allCommands, store, triggers, inTriggers, work, pending, calls>>

\* generateFinalImage of startCommit, and the final callback.
GenerateFinalImage ==
    /\ pc = "commit"
    /\ cmdIdx = Len(allCommands)
    /\ builder' = emit(storeImageLayer(setNewImageId(setParentId(builder, builder.image.id)),
                                        NoCmd),
                        "end", "", NoErr)
    /\ pc' = "ended"
    /\ UNCHANGED <<fs, result, allCommands, store, cmdIdx, triggers, inTriggers, cmd, work, pending, calls>>

Next ==
    \/ Start
    \/ StartCommit
    \/ CommitStep
    \/ GenerateFinalImage
    \/ ExtractContextCallback
    \/ ReadDockerfile
    \/ CommandBuildStep
    \/ DoPreStep
    \/ DoCheckCache
    \/ ReprovisionCallback
    \/ ImageReprovisionedCallback
    \/ DoActualStep
    \/ DoCopy
    \/ ExtractedCallback
    \/ RunCallback
    \/ DoPostStep
    \/ RunNextTrigger
    \/ Finish

Spec == Init /\ [][Next]_vars

(***************************************************************************)
(* The path resolver on its own                                            *)
(***************************************************************************)
\* The WorkingDir values of the images whose paths are resolved.
WorkingDirs == {<<>>, <<"/", "b">>, <<"/", "t">>}

\* Where a symbolic link may be made: /z/t, /z/u and /z/b/h in the image,
\* /c/l in the context; and what it may lead to.
LinkPlaces ==
    {<< <<"z">>, <<"t">> >>, << <<"z">>, <<"u">> >>, << <<"z">>, <<"b">>, <<"h">> >>,
     << <<"c">>, <<"l">> >>}
LinkTargets(place) ==
    IF place[1] = <<"c">>
    THEN {<<"/", "e", "/", "p">>, <<".", ".", "/", ".", ".", "/", "e">>}
    ELSE {<<".", ".", "/", ".", ".", "/", "e">>, <<"/">>, <<"u">>, <<"t">>,
          <<"/", ".", ".", "/", ".", ".", "/", ".", ".", "/", ".", ".", "/", ".", ".">>,
          <<"b", "/", "h">>, <<".", ".", "/", "t", "/">>}

\* The targets given to containerRealpath, and the Dockerfile names given
\* to getRealpathFromRootDir with the context as root.
ContainerTargets ==
    {<<"/", "t">>, <<"/", "t", "/">>, <<"/", "t", "/", "x">>, <<"/", "b", "/", "h", "/", "y">>,
     <<"/", "u", "/", ".", ".", "/", "t">>, <<"h">>, <<".", ".", "/", ".", ".", "/", "q">>,
     <<"/", ".", ".", "/", ".", ".", "/", ".", ".", "/", ".", ".", "/", ".", ".">>}
DockerfileNames ==
    {<<"l">>, <<"d", "/", "g">>, <<".", ".", "/", "e", "/", "p">>, <<"l", "/", "p">>}

InitPath ==
    /\ \E wd \in WorkingDirs :
          builder = [Builder(CHOOSE opts \in Options :
                                opts.existingImages = <<>> /\ ~opts.nocache)
                        EXCEPT !.image.config.WorkingDir = wd]
    /\ fs = WithNode(HostFiles, << <<"z">>, <<"b">> >>, Dir)
    /\ result = NoResult
    /\ store = <<OnbImage>>
    /\ allCommands = <<>>
    /\ pc = "constructed"
    /\ cmdIdx = 0
    /\ triggers = <<>>
    /\ inTriggers = FALSE
    /\ cmd = NoCmd
    /\ work = <<>>
    /\ pending = <<>>
    /\ calls = <<>>

Resolved(root, target, r) == [root |-> root, target |-> target, err |-> r.err, path |-> r.path]

\* A layer of the image, or the build context, brings a symbolic link.
Symlink ==
    /\ result = NoResult
    /\ \E place \in LinkPlaces :
          /\ NodeAt(fs, place).t = "none"
          /\ \E to \in LinkTargets(place) :
                fs' = WithNode(fs, place, Link(to))
    /\ UNCHANGED <<result, builder, allCommands, store, pc, cmdIdx, triggers, inTriggers, cmd,
                   work, pending, calls>>

\* builder.containerRealpath(target)
ContainerRealpath ==
    /\ result = NoResult
    /\ \E target \in ContainerTargets :
          result' = Resolved(containerRootDir, target, containerRealpath(builder, fs, target))
    /\ UNCHANGED <<fs, builder, allCommands, store, pc, cmdIdx, triggers, inTriggers, cmd,
                   work, pending, calls>>

\* getRealpathFromRootDir(dockerfilenames[i], builder.contextExtractDir) of
\* readDockerfile
DockerfileRealpath ==
    /\ result = NoResult
    /\ \E name \in DockerfileNames :
          result' = Resolved(contextExtractDir, name,
                             getRealpathFromRootDir(fs, name, contextExtractDir, 0))
    /\ UNCHANGED <<fs, builder, allCommands, store, pc, cmdIdx, triggers, inTriggers, cmd,
                   work, pending, calls>>

NextPath ==
    \/ Symlink
    \/ ContainerRealpath
    \/ DockerfileRealpath

SpecPath == InitPath /\ [][NextPath]_vars

(***************************************************************************)
(* What the log of emitted events tells                                    *)
(***************************************************************************)
StepMessage(n, c) == "Step " \o ToString(n) \o " : " \o getCommandString(c) \o "\n"

IsStep(e) == e.ev = "message" /\ e.step > 0
IsTask(e) == e.ev = "task"

\* The positions of the 'Step' messages in the log.
StepIdx ==
    SelectSeq([i \in 1..Len(builder.emitted) |-> i], LAMBDA i : IsStep(builder.emitted[i]))

\* What the builder has emitted from the k-th 'Step' message up to the next.
StepSegment(k) ==
    SubSeq(builder.emitted, StepIdx[k],
           IF k < Len(StepIdx) THEN StepIdx[k + 1] - 1 ELSE Len(builder.emitted))

Has1(q, P(_)) == \E i \in 1..Len(q) : P(q[i])

\* The events the builder emits in the current transition.
NewEvents == SubSeq(builder'.emitted, Len(builder.emitted) + 1, Len(builder'.emitted))

Succeeded == pc = "ended" /\ builder.emitted[Len(builder.emitted)] = Event("end", "", NoErr)

(***************************************************************************)
(* C1                                                                      *)
(***************************************************************************)
\* C1: for every i >= 1 the parent of the image stored as layers[i] is the
\* id of the image stored as layers[i-1].
C1_ParentChain ==
    \A i \in 2..Len(builder.layers) :
        builder.layers[i].image.parent = builder.layers[i - 1].image.id

(***************************************************************************)
(* C2                                                                      *)
(***************************************************************************)
\* C2: once the host has given a non-null error to the callback of a task,
\* the build is over and all the builder has emitted since is 'end' with
\* that error: no 'Step' message, no task, nothing an instruction emits.
C2_TaskErrorEndsBuild ==
    \A k \in 1..Len(calls) :
        (calls[k].ev = "task" /\ calls[k].err # NoErr)
            => /\ pc = "ended"
               /\ pending = <<>>
               /\ builder.emitted =
                      SubSeq(builder.emitted, 1, calls[k].at)
                          \o <<Event("end", "", calls[k].err)>>

\* A run task inside a replayed trigger has been answered with an error.
C2_Witness ==
    /\ inTriggers
    /\ \E k \in 1..Len(calls) :
          calls[k].ev = "task" /\ calls[k].type = "run" /\ calls[k].err # NoErr

(***************************************************************************)
(* C3                                                                      *)
(***************************************************************************)
\* C3: at most one emitted event waits for its callback, the builder does
\* nothing but wait while one does, and the only thing that happens then is
\* the host invoking that callback.
C3_OneTaskOutstanding ==
    /\ [](Len(pending) <= 1 /\ (pending # <<>> => pc = "await"))
    /\ [][pending # <<>> => (Len(calls') = Len(calls) + 1
                               /\ calls'[Len(calls')].ev = pending[1].ev)]_vars

\* A run task is outstanding in a build that has stored a layer.
C3_Witness ==
    /\ pending # <<>>
    /\ pending[1].type = "run"
    /\ builder.layers # <<>>

(***************************************************************************)
(* C4                                                                      *)
(***************************************************************************)
\* The triggers a FROM lifts, as instructions.
RECURSIVE ParseAll(_)
ParseAll(lines) == IF lines = <<>> THEN <<>> ELSE parseLine(Head(lines)) \o ParseAll(Tail(lines))

\* The steps a Dockerfile asks for: its instructions in file order, each
\* FROM of 'onb' or 'onf' followed by the triggers of that image in list
\* order.
RECURSIVE ExpectedSteps(_)
ExpectedSteps(commands) ==
    IF commands = <<>> THEN <<>>
    ELSE LET c == Instructions[Head(commands)]
         IN <<c>>
              \o (IF c.name = "FROM" /\ c.args.v = "onb"
                  THEN ParseAll(Val(OnbImage.Config.OnBuild))
                  ELSE IF c.name = "FROM" /\ c.args.v = "onf"
                  THEN ParseAll(Val(OnfImage.Config.OnBuild))
                  ELSE <<>>)
              \o ExpectedSteps(Tail(commands))

\* C4: in a build the 'Step' messages are those of the expected steps in order, a step
\* starts only when every step before it has stored its layer, a task
\* belongs to the one step that has started and not yet stored its layer,
\* and a build that succeeds has run all the expected steps.
C4_StepsInOrder ==
    builder.commandType = "build" =>
    Let(StepIdx, LAMBDA steps :
    Let(ExpectedSteps(allCommands), LAMBDA expected :
        LET layers == builder.layers
        IN /\ Len(steps) <= Len(expected)
           /\ \A k \in 1..Len(steps) :
                 /\ builder.emitted[steps[k]].step = k
                 /\ builder.emitted[steps[k]].message = StepMessage(k, expected[k])
           /\ Len(layers) \in {Len(steps) - 1, Len(steps)}
           /\ \A k \in 1..Len(layers) : layers[k].cmd.raw = expected[k].raw
           /\ (pending # <<>> /\ pending[1].cont # "extractContext")
                 => Len(layers) = Len(steps) - 1
           /\ Succeeded => Len(layers) = Len(expected)))

\* A build has succeeded in which a FROM lifted triggers and an instruction
\* of the Dockerfile came after them.
C4_Witness ==
    /\ Succeeded
    /\ Len(allCommands) >= 2
    /\ Instructions[allCommands[1]].raw = "FROM onb"
    /\ Len(builder.layers) = Len(allCommands) + 2

(***************************************************************************)
(* C5                                                                      *)
(***************************************************************************)
\* The sources of the current ADD or COPY, and the source as
\* calculateCopyInfo names it: without its leading '/' or './'.
Sources == DropLast(cmd.args.v, 1)
Named(src) ==
    Let(IF Len(src) > 1 /\ src[1] = "/" THEN SliceFrom(src, 2) ELSE src, LAMBDA s1 :
        IF StartsWith(s1, <<".", "/">>) THEN SliceFrom(s1, 3) ELSE s1)

\* Where the operating system finds a source of the context.
SourceRealpath(src) == realpathSync(fs, pathJoin(contextExtractDir, src))

\* The source exists, and is neither the extracted context nor below it.
SourceOutside(src) ==
    Let(SourceRealpath(src), LAMBDA r : r.err = "" /\ (r.at = <<>> \/ r.at[1] # <<"c">>))

PreStepOfCopy == pc = "preStep" /\ cmd.name \in {"ADD", "COPY"} /\ Len(cmd.args.v) >= 2

\* The build ends now, with an error of these messages and nothing else.
FailsWith(messages) ==
    /\ pc' = "ended"
    /\ Len(NewEvents) = 1
    /\ NewEvents[1].ev = "end"
    /\ NewEvents[1].message \in messages

ForbiddenMessages == {ForbiddenPath \o Str(Named(Sources[i])) \o " " : i \in 1..Len(Sources)}

\* C5 as it is stated: when a source of an ADD or COPY resolves outside
\* the context, the build fails with a 'Forbidden path outside the build
\* context: ' error, without an extract_tarfile task for the instruction.
C5_ForbiddenSource ==
    [][(PreStepOfCopy /\ \E i \in 1..Len(Sources) : SourceOutside(Sources[i]))
          => FailsWith(ForbiddenMessages)]_vars

\* The checks the pre-hook makes before it reaches source i: the
\* destination resolves, and every source before i is found in the context.
ReachesSource(i) ==
    /\ containerRealpath(builder, fs,
                         Let(cmd.args.v[Len(cmd.args.v)], LAMBDA last :
                             IF last[1] # "/"
                             THEN pathJoin(builder.image.config.WorkingDir, last)
                             ELSE last)).err = ""
    /\ \A j \in 1..(i - 1) : SourceRealpath(Sources[j]).err = ""

\* C5: when a source of an ADD or COPY resolves outside the context, the
\* build fails in the pre-hook of the instruction, so that no extract_tarfile
\* task is emitted for it; and when the pre-hook reaches the first such
\* source, its error is 'Forbidden path outside the build context: ' with
\* the source.
C5_ForbiddenSourceReached ==
    [][PreStepOfCopy =>
          \A i \in 1..Len(Sources) :
              (SourceOutside(Sources[i]) /\ \A j \in 1..(i - 1) : ~SourceOutside(Sources[j]))
                 => /\ pc' = "ended"
                    /\ Len(NewEvents) = 1
                    /\ NewEvents[1].ev = "end"
                    /\ NewEvents[1].message # NoErr
                    /\ ReachesSource(i)
                          => NewEvents[1].message
                                = ForbiddenPath \o Str(Named(Sources[i])) \o " "]_vars

\* A build has failed on a source that a symbolic link of the context leads
\* out of it, after a source that is in the context.
C5_Witness ==
    /\ pc = "ended"
    /\ cmd.raw = "COPY f ../cc/s /t/"
    /\ builder.emitted[Len(builder.emitted)]
          = Event("end", "", ForbiddenPath \o "../cc/s" \o " ")

(***************************************************************************)
(* C6                                                                      *)
(***************************************************************************)
\* The extract_tarfile tasks of ADD and COPY: all but the one of the context.
IsCopyTask(e) == e.ev = "task" /\ e.type = "extract_tarfile" /\ e.message # "context"

\* Where the operating system finds dir, what is missing of it being made.
RealDir(dir) == OsWalk(fs, Components(dir), <<>>, OsMaxLinks, TRUE)

\* C6: the extractDir of every extract_tarfile task of an ADD or COPY,
\* resolved through the symbolic links of the image, is containerRootDir or
\* below it.
C6_ExtractDirInRoot ==
    \A i \in 1..Len(builder.emitted) :
        IsCopyTask(builder.emitted[i])
            => Let(RealDir(builder.emitted[i].extractDir), LAMBDA r :
                   r.err = "" /\ r.at # <<>> /\ r.at[1] = <<"z">>)

(***************************************************************************)
(* C7                                                                      *)
(***************************************************************************)
UpAndUp == <<"/", ".", ".", "/", ".", ".", "/", ".", ".", "/", ".", ".", "/", ".", ".">>

\* C7: a path that getRealpathFromRootDir or containerRealpath returns,
\* joined with the root directory, is the root directory or below it, and so
\* is where the operating system finds it; and a symbolic link to
\* '/../../../../..' resolves to '/'.
C7_RealpathContained ==
    /\ (result.target # <<>> /\ result.err = "")
          => /\ underDir(pathJoin(result.root, result.path), result.root)
             /\ Let(RealDir(result.root \o result.path), LAMBDA r :
                    r.err = "" /\ r.at # <<>> /\ <<"/">> \o r.at[1] = result.root)
    /\ (/\ result.target = <<"/", "t">>
        /\ NodeAt(fs, << <<"z">>, <<"t">> >>) = Link(UpAndUp))
          => (result.err = "" /\ result.path = <<"/">>)

\* The path through a symbolic link to '/../../../../..' has been resolved.
C7_Witness ==
    /\ result.target = <<"/", "t", "/", "x">>
    /\ NodeAt(fs, << <<"z">>, <<"t">> >>) = Link(UpAndUp)
    /\ result.err = ""
    /\ result.path = <<"/", "x">>

(***************************************************************************)
(* C8                                                                      *)
(***************************************************************************)
\* Two Labels values are deep-equal: both null, or maps with the same keys
\* and the same value under each key.
SameLabels(l1, l2) ==
    \/ IsNull(l1) /\ IsNull(l2)
    \/ /\ ~IsNull(l1)
       /\ ~IsNull(l2)
       /\ KeySet(Val(l1)) = KeySet(Val(l2))
       /\ \A k \in KeySet(Val(l1)) : Get(Val(l1), k) = Get(Val(l2), k)

\* Candidate k of existingImages serves the current step.
Matches(k) ==
    LET img == builder.existingImages[k]
    IN /\ img.ContainerConfig.Image = builder.image.parent
       /\ img.ContainerConfig.Cmd = Some(getNopCmdForCommand(builder, cmd))
       /\ SameLabels(builder.image.config.Labels, img.Config.Labels)

\* C8: where doCheckCache looks a step up, getCachedImage gives a candidate
\* that matches in parent, nopCmd and Labels and has no matching candidate
\* before it in existingImages, and it gives none exactly when no candidate
\* matches.
C8_CachedImageIsFirstMatch ==
    (pc = "checkCache" /\ cmd.name # "FROM")
        => LET r == getCachedImage(builder, cmd)
               n == Len(builder.existingImages)
           IN /\ r \in 0..n
              /\ (r = 0) <=> (\A k \in 1..n : ~Matches(k))
              /\ r # 0 => (Matches(r) /\ \A j \in 1..(r - 1) : ~Matches(j))

\* A lookup that two candidates match, a candidate before them differing
\* from them only in its labels.
C8_Witness ==
    /\ pc = "checkCache"
    /\ cmd.name # "FROM"
    /\ LET r == getCachedImage(builder, cmd)
       IN /\ r > 1
          /\ \E j \in (r + 1)..Len(builder.existingImages) : Matches(j)

(***************************************************************************)
(* C9                                                                      *)
(***************************************************************************)
IsUsingCache(e) == e.ev = "message" /\ e.message = " ---> Using cache\n"

\* The candidate with this id, as the caller gave it to the builder.
Candidate(id) == store[CHOOSE k \in 1..Len(store) : store[k].Id = id]

\* C9: a step other than FROM and ARG that was served from the cache has
\* emitted ' ---> Using cache' and no task, and the layer stored for it has
\* the Id, the Config and the ContainerConfig of the cached image.
C9_CacheHitLayer ==
    \A i \in 1..Len(builder.layers) :
        LET layer == builder.layers[i]
        IN (layer.cmd.ctx.isCached /\ layer.cmd.name \notin {"FROM", "ARG"})
              => /\ Has1(StepSegment(i), IsUsingCache)
                 /\ ~Has1(StepSegment(i), IsTask)
                 /\ \E k \in 1..Len(store) : store[k].Id = layer.image.id
                 /\ layer.image.config = Candidate(layer.image.id).Config
                 /\ layer.image.container_config
                       = Some(Candidate(layer.image.id).ContainerConfig)

(***************************************************************************)
(* C10                                                                     *)
(***************************************************************************)
\* The step before the current one was served from the cache.
PrevCached ==
    /\ builder.layers # <<>>
    /\ builder.layers[Len(builder.layers)].cmd.ctx.isCached

\* The current step is looked up and is not in the cache.
MissAfterHit ==
    /\ pc = "checkCache"
    /\ cmd.name # "FROM"
    /\ PrevCached
    /\ getCachedImage(builder, cmd) = 0

\* C10: a step that misses the cache right after a step served from it
\* emits one image_reprovision task naming the current parent id, which is
\* the id of the last cached image, and waits; the main hook of such a step
\* is reached only from the image_reprovisioned callback, the task's
\* callback and this one having been given no error; no other cache lookup
\* emits a task.
C10_ReprovisionOnMiss ==
    [][/\ MissAfterHit
          => /\ NewEvents = <<Event("task", "image_reprovision", builder.image.parent)>>
             /\ builder.image.parent = builder.layers[Len(builder.layers)].image.id
             /\ pc' = "await"
             /\ Len(pending') = 1
       /\ (pc = "checkCache" /\ ~MissAfterHit) => ~Has1(NewEvents, IsTask)
       /\ (pending # <<>> /\ pending[1].cont = "checkCache")
          => /\ pc' \in {"await", "ended", "actualStep"}
             /\ ~Has1(NewEvents, IsTask)
             /\ pc' = "actualStep"
                   => /\ pending[1].ev = "image_reprovisioned"
                      /\ Len(calls') >= 2
                      /\ calls'[Len(calls')].err = NoErr
                      /\ calls'[Len(calls') - 1].type = "image_reprovision"
                      /\ calls'[Len(calls') - 1].err = NoErr
      ]_vars

\* The main hook of a step is about to run after the host has gone back to
\* the last cached image.
C10_Witness ==
    /\ pc = "actualStep"
    /\ cmd.name # "FROM"
    /\ calls # <<>>
    /\ calls[Len(calls)].ev = "image_reprovisioned"

(***************************************************************************)
(* C11                                                                     *)
(***************************************************************************)
\* The name an ARG instruction declares.
ArgName(c) ==
    Let(IndexOfEq(c.args.v[1], 1), LAMBDA idx :
        IF idx > 0 THEN Str(SubSeq(c.args.v[1], 1, idx - 1)) ELSE Str(c.args.v[1]))

\* The error of checkBuildArgs for the build-args keys.
NotConsumed(keys) ==
    "One or more build-args [" \o JoinStr(keys, ",") \o "] were not consumed, failing build."

NotConsumedErrors ==
    {NotConsumed(keys) : keys \in SeqsUpTo({"n", "q", "HTTP_PROXY"}, 3) \ {<<>>}}

LastEvent == builder.emitted[Len(builder.emitted)]

\* C11: the main hook of an ARG step that is served from the cache runs: the
\* name is out of cliBuildArgs and registered, with the value of the command
\* line when it has one; so no ARG step that was stored, cached or not,
\* leaves its name in cliBuildArgs, and a build ending with the 'not
\* consumed' error names only build-args no ARG step declared.
C11_CachedArgConsumed ==
    /\ [][(pc = "actualStep" /\ cmd.name = "ARG" /\ cmd.ctx.isCached)
             => /\ pc' = "postStep"
                /\ ~Has(builder'.cliBuildArgs, ArgName(cmd))
                /\ Has(builder'.buildArgsPlusDefaults, ArgName(cmd))
                /\ Has(builder.cliBuildArgs, ArgName(cmd))
                      => /\ Has(builder'.buildArgs, ArgName(cmd))
                         /\ Get(builder'.buildArgs, ArgName(cmd))
                               = Get(builder.cliBuildArgs, ArgName(cmd))]_vars
    /\ [](\A i \in 1..Len(builder.layers) :
             builder.layers[i].cmd.name = "ARG"
                => ~Has(builder.cliBuildArgs, ArgName(builder.layers[i].cmd)))
    /\ []((pc = "ended" /\ LastEvent.message \in NotConsumedErrors)
             => LastEvent.message = NotConsumed(Keys(builder.cliBuildArgs)))

\* A build given --build-arg n=1 whose 'ARG n' was served from the cache has
\* ended without an error, n registered with the value 1.
C11_Witness ==
    /\ Succeeded
    /\ \E i \in 1..Len(builder.layers) :
          /\ builder.layers[i].cmd.name = "ARG"
          /\ builder.layers[i].cmd.ctx.isCached
    /\ Has(builder.buildArgs, "n")
    /\ Get(builder.buildArgs, "n") = Some(<<"1">>)

(***************************************************************************)
(* C12                                                                     *)
(***************************************************************************)
\* A CMD instruction was processed in this build before step i.
CmdBefore(i) == \E j \in 1..(i - 1) : builder.layers[j].cmd.name = "CMD"

\* C12: in the image stored for an ENTRYPOINT step config.Cmd is null when
\* no CMD instruction was processed earlier in the build, and what it was
\* before the step when one was, served from the cache or not.
C12_EntrypointKeepsCmd ==
    \A i \in 2..Len(builder.layers) :
        builder.layers[i].cmd.name = "ENTRYPOINT"
            => IF CmdBefore(i)
               THEN builder.layers[i].image.config.Cmd
                       = builder.layers[i - 1].image.config.Cmd
               ELSE IsNull(builder.layers[i].image.config.Cmd)

(***************************************************************************)
(* C13                                                                     *)
(***************************************************************************)
\* The Cmd of the container_config of layer i is not the Cmd of its config.
CmdDiffers(i) ==
    Val(builder.layers[i].image.container_config).Cmd # builder.layers[i].image.config.Cmd

ExecutedNotRun(i) ==
    /\ builder.commandType = "build"
    /\ ~builder.layers[i].cmd.ctx.isCached
    /\ builder.layers[i].cmd.name # "RUN"

\* The config.Cmd of layer i is null or what a CMD instruction of this build
\* has set.
CmdNullOrSetByCmd(i) ==
    \/ IsNull(builder.layers[i].image.config.Cmd)
    \/ \E j \in 1..i :
          /\ builder.layers[j].cmd.name = "CMD"
          /\ builder.layers[i].image.config.Cmd = Some(builder.layers[j].cmd.args.v)

TriggersAnnounced ==
    2 * Cardinality({i \in 1..Len(builder.emitted) :
                        builder.emitted[i].message = "# Executing 2 build triggers\n"})
      + 3 * Cardinality({i \in 1..Len(builder.emitted) :
                            builder.emitted[i].message = "# Executing 3 build triggers\n"})

\* C14: in build mode the post-hook of a step, the end of a step without
\* error, appends exactly one layer, and nothing else changes the number of
\* layers, so a failing step appends none; when the build has succeeded
\* the layers are as many as the instructions of the Dockerfile plus the
\* triggers replayed.
C14_OneLayerPerStep ==
    /\ [][builder.commandType = "build"
             => Len(builder'.layers)
                   = Len(builder.layers) + (IF pc = "postStep" THEN 1 ELSE 0)]_vars
    /\ []((Succeeded /\ builder.commandType = "build")
             => /\ builder.totalNumSteps = Len(allCommands)
                /\ Len(builder.layers) = builder.totalNumSteps + TriggersAnnounced)

\* A build with replayed triggers and a step served from the cache has
\* succeeded.
C14_Witness ==
    /\ Succeeded
    /\ TriggersAnnounced = 2
    /\ Len(builder.layers) = Len(allCommands) + 2
    /\ \E i \in 1..Len(builder.layers) : builder.layers[i].cmd.ctx.isCached

(***************************************************************************)
(* C15                                                                     *)
(***************************************************************************)
\* A build whose Dockerfile does not begin with FROM.
FirstNotFrom ==
    /\ builder.commandType = "build"
    /\ allCommands # <<>>
    /\ Instructions[allCommands[1]].name # "FROM"

\* C15: when the first instruction is not FROM no pre-hook, cache check or
\* main hook is ever reached, the context extraction is the only task, no
\* layer is stored, and the build, once the context is extracted, ends with
\* the error asking for a source image.
C15_FromMustBeFirst ==
    FirstNotFrom
        => /\ pc \in {"constructed", "await", "read", "process", "ended"}
           /\ builder.layers = <<>>
           /\ \A i \in 1..Len(builder.emitted) :
                 IsTask(builder.emitted[i]) => (i = 1 /\ builder.emitted[i].message = "context")
           /\ (pc = "ended" /\ calls[1].err = NoErr)
                 => LastEvent = Event("end", "", ProvideSourceImage)

\* A Dockerfile of several instructions beginning with WORKDIR has ended
\* with the error.
C15_Witness ==
    /\ FirstNotFrom
    /\ Len(allCommands) >= 2
    /\ Instructions[allCommands[1]].name = "WORKDIR"
    /\ pc = "ended"
    /\ LastEvent = Event("end", "", ProvideSourceImage)

(***************************************************************************)
(* C16                                                                     *)
(***************************************************************************)
\* The last instruction, and the triggers it lifted, are done.
AfterLastInstruction == pc = "process" /\ cmdIdx = Len(allCommands)

\* The main hook of an ARG instruction runs now.
ArgHook == pc = "actualStep" /\ cmd.name = "ARG" /\ Len(cmd.args.v) = 1

\* C16: the build-args of the command line never hold a pre-registered
\* proxy default, and a name leaves them only in the main hook of the ARG
\* instruction declaring it; after the last instruction, when a name is
\* left the build ends with the 'not consumed' error naming what is left
\* and no 'Successfully built', and when none is left the build does not
\* end with that error.
C16_BuildArgsConsumed ==
    /\ [](\A i \in 1..Len(DEFAULT_ARG_NAMES) :
             ~Has(builder.cliBuildArgs, DEFAULT_ARG_NAMES[i]))
    /\ [][builder'.cliBuildArgs
             = IF ArgHook THEN Del(builder.cliBuildArgs, ArgName(cmd))
               ELSE builder.cliBuildArgs]_vars
    /\ [][AfterLastInstruction
             => IF builder.cliBuildArgs # EmptyMap
                THEN FailsWith({NotConsumed(Keys(builder.cliBuildArgs))})
                ELSE /\ pc' = "ended"
                     /\ NewEvents[Len(NewEvents)].ev = "end"
                     /\ NewEvents[Len(NewEvents)].message \notin NotConsumedErrors]_vars

\* A build given --build-arg q=1, which no instruction declares, has run
\* its instructions, an ARG among them, and ended with the error.
C16_Witness ==
    /\ pc = "ended"
    /\ cmdIdx = Len(allCommands)
    /\ \E i \in 1..Len(builder.layers) : builder.layers[i].cmd.name = "ARG"
    /\ LastEvent = Event("end", "", NotConsumed(<<"q">>))

(***************************************************************************)
(* C17                                                                     *)
(***************************************************************************)
\* The changes of a docker commit, as instructions.
Changes == [i \in 1..Len(allCommands) |-> Instructions[allCommands[i]]]

\* A docker commit among whose changes is an instruction of the six.
ForbiddenChange ==
    /\ builder.commandType = "commit"
    /\ \E i \in 1..Len(Changes) :
          Changes[i].name \in {"ADD", "ARG", "COPY", "FROM", "MAINTAINER", "RUN"}

FirstForbidden ==
    Changes[CHOOSE i \in 1..Len(Changes) :
               /\ Changes[i].name \in {"ADD", "ARG", "COPY", "FROM", "MAINTAINER", "RUN"}
               /\ \A j \in 1..(i - 1) :
                     Changes[j].name \notin {"ADD", "ARG", "COPY", "FROM", "MAINTAINER", "RUN"}]

Given(k) == store[k + 1]

\* C18: no step of a build modifies an entry of existingImages: when 'end'
\* is emitted every candidate's Config, ContainerConfig and Id are what they
\* were at construction, a cache hit on the candidate and further steps
\* included.
C18_ExistingImagesUnchanged ==
    (pc = "ended" /\ builder.commandType = "build")
        => \A k \in 1..Len(builder.existingImages) :
               /\ builder.existingImages[k].Id = Given(k).Id
               /\ builder.existingImages[k].Config = Given(k).Config
               /\ builder.existingImages[k].ContainerConfig = Given(k).ContainerConfig

(***************************************************************************)
(* C19                                                                     *)
(***************************************************************************)
\* C19: the layers list only grows by appending: no step removes or moves a
\* layer, and the image stored with a layer (id, parent, config,
\* container_config) is the same after every later step, cache hit,
\* reprovision and ONBUILD replay.
C19_LayersAppendOnly ==
    [][/\ Len(builder'.layers) >= Len(builder.layers)
       /\ \A i \in 1..Len(builder.layers) :
              builder'.layers[i].image = builder.layers[i].image]_vars

\* A build that ended with a layer served from the cache, a reprovision and
\* a replayed trigger, the builder's image being no longer the one of its
\* first layer.
C19_Witness ==
    /\ Succeeded
    /\ Len(builder.layers) >= 3
    /\ TriggersAnnounced >= 1
    /\ \E i \in 1..Len(builder.layers) : builder.layers[i].cmd.ctx.isCached
    /\ \E i \in 1..Len(builder.emitted) : builder.emitted[i].ev = "image_reprovisioned"
    /\ builder.layers[1].image # builder.image

(***************************************************************************)
(* C20                                                                     *)
(***************************************************************************)
\* The step about to replace the variables of an instruction whose
\* arguments hold a substitution processDollar rejects.
BadSubstitution ==
    /\ pc = "preStep"
    /\ cmdAllowsVariables(cmd)
    /\ updateCommandVariables(builder, cmd).err \in SubstitutionErrors

\* C20: an instruction that allows variables and holds a ${NAME...}
\* substitution with an unsupported modifier or without ':' aborts the
\* build: its main hook does not run, no layer is stored for it, and 'end'
\* is emitted with the substitution error.
C20_BadSubstitutionEndsBuild ==
    [][BadSubstitution
          => /\ pc' = "ended"
             /\ builder'.emitted[Len(builder'.emitted)]
                    = Event("end", "", updateCommandVariables(builder, cmd).err)
             /\ builder'.layers = builder.layers
             /\ builder'.image.config.WorkingDir = builder.image.config.WorkingDir]_vars

(***************************************************************************)
(* The variable replacement on its own                                     *)
(***************************************************************************)
\* A substitution ${name:modifier word}, the names, the words and what
\* follows the closing brace in the arguments that are replaced.
Substitution(name, modifier, word) ==
    <<"$", "{">> \o name \o <<":", modifier>> \o word \o <<"}">>
WordNames == {<<"n">>, <<"q">>}
Modifiers == {"+", "-"}
InnerWords ==
    {<<>>,
     <<"b">>,
     <<"$", "q">>,
     <<"$", "{", "q", "}">>,
     <<"'", "$", "n", "}", "'">>,
     <<"\"", "$", "q", "}", "\"">>,
     <<"\\", "}">>,
     <<"$", "{", "q", ":", "-", "c", "}">>,
     <<"$", "{", "q", "!", "}">>,
     <<"b", "$", "n">>}
Suffixes == {<<>>, <<"z">>}
\* Words without $, quote or backslash.
PlainWords ==
    {<<"/", "a">>, <<"/", "a", "}", "b">>, <<"/", "{", "n", "}">>,
     <<"/", "n", ":", "-", "b">>, <<"/", "n", "=", "1">>}
Words ==
    {<<"/">> \o Substitution(n, m, w) \o s :
        n \in WordNames, m \in Modifiers, w \in InnerWords, s \in Suffixes}
      \cup {<<"/", "$", "n">>, <<"/", "$", "{", "n", "}">>, <<"/", "$", "q", "$", "n">>}
      \cup PlainWords

\* The Env of the image the step is built on, and the ARG entries that
\* earlier steps declared.
EnvChoices ==
    {Null,
     Some(<<<<"n", "=", "1">>>>),
     Some(<<<<"n", "=">>>>),
     Some(<<<<"n">>>>),
     Some(<<<<"n", "=", "1">>, <<"n", "=", "3">>>>),
     Some(<<<<"q", "=", "2">>>>),
     Some(<<<<"q", "=", "2">>, <<"n", "=", "1">>>>)}
ArgChoices ==
    {<<>>, << <<"n", Some(<<"5">>)>> >>, << <<"n", Null>> >>, << <<"q", Some(<<"7">>)>> >>,
     << <<"q", Some(<<"7">>)>>, <<"n", Some(<<"5">>)>> >>}

RECURSIVE addArgEntries(_, _)
addArgEntries(b, args) ==
    IF args = <<>> THEN b
    ELSE addArgEntries(addArgEntry(b, Head(args)[1], Head(args)[2]), Tail(args))

\* A builder at doPreStep of a WORKDIR step that is not the last one.
InitWord ==
    /\ \E env \in EnvChoices, args \in ArgChoices :
          builder = [addArgEntries(Builder(CHOOSE opts \in Options :
                                              opts.existingImages = <<>> /\ ~opts.nocache),
                                   args)
                        EXCEPT !.image.config.Env = env,
                               !.stepNo = 1,
                               !.totalNumSteps = MaxSteps]
    /\ \E w \in Words : cmd = Instr("WORKDIR", "text", w, "WORKDIR " \o Str(w))
    /\ fs = HostFiles
    /\ result = NoResult
    /\ store = <<OnbImage>>
    /\ allCommands = <<>>
    /\ pc = "preStep"
    /\ cmdIdx = 1
    /\ triggers = <<>>
    /\ inTriggers = FALSE
    /\ work = <<>>
    /\ pending = <<>>
    /\ calls = <<>>

NextWord == DoPreStep

SpecWord == InitWord /\ [][NextWord]_vars

\* The env list the arguments of the current step are replaced with.
MergedEnv ==
    getMergedEnvArgArray(IF IsNull(builder.image.config.Env) THEN <<>>
                         ELSE Val(builder.image.config.Env),
                         builder.buildArgsPlusDefaults)

\* The key and the value of an env entry 'K=V', or 'K'.
KeyOf(entry) ==
    IF IndexOfEq(entry, 1) = 0 THEN entry ELSE SubSeq(entry, 1, IndexOfEq(entry, 1) - 1)
ValueOf(entry) ==
    IF IndexOfEq(entry, 1) = 0 THEN <<>> ELSE SliceFrom(entry, IndexOfEq(entry, 1) + 1)

\* The value of the first entry of env whose key is name, '' without one.
FirstValue(env, name) ==
    IF \E i \in 1..Len(env) : KeyOf(env[i]) = name
    THEN ValueOf(env[CHOOSE i \in 1..Len(env) :
                        /\ KeyOf(env[i]) = name
                        /\ \A j \in 1..(i - 1) : KeyOf(env[j]) # name])
    ELSE <<>>

\* What ${name:modifier word} is to expand to, inner being the expansion
\* of word.
Expansion(env, name, modifier, inner) ==
    IF modifier = "+"
    THEN IF FirstValue(env, name) # <<>> THEN inner ELSE <<>>
    ELSE IF FirstValue(env, name) # <<>> THEN FirstValue(env, name) ELSE inner

(***************************************************************************)
(* C21                                                                     *)
(***************************************************************************)
\* C21: ${NAME:+word} expands to the expansion of word when NAME has a
\* non-empty value and to the empty string otherwise, ${NAME:-word} to
\* NAME's value when it is non-empty and to the expansion of word otherwise;
\* word is expanded up to its matching '}', what follows is kept, and NAME's
\* value is that of the first entry of the env list whose key is NAME.
C21_Modifiers ==
    [][pc = "preStep"
          => \A n \in WordNames, m \in Modifiers, w \in InnerWords, s \in Suffixes :
                 cmd.args.v = <<"/">> \o Substitution(n, m, w) \o s
                     => Let(processWord(w, MergedEnv), LAMBDA inner :
                            IF inner.err # "" THEN pc' = "thrown"
                            ELSE /\ pc' = "checkCache"
                                 /\ cmd'.args.v = <<"/">> \o Expansion(MergedEnv, n, m, inner.result)
                                                     \o s)]_vars

\* ${n:+$q} and ${n:-$q} were replaced with an Env that holds n twice.
C21_Witness ==
    /\ pc = "checkCache"
    /\ builder.image.config.Env = Some(<<<<"n", "=", "1">>, <<"n", "=", "3">>>>)
    /\ \/ cmd.raw = "WORKDIR /${n:+$q}z" /\ cmd.args.v = <<"/", "7", "z">>
       \/ cmd.raw = "WORKDIR /${n:-$q}z" /\ cmd.args.v = <<"/", "1", "z">>

(***************************************************************************)
(* C22                                                                     *)
(***************************************************************************)
\* The instructions whose arguments are to be replaced.
WithVariables ==
    {"ADD", "ARG", "COPY", "ENV", "EXPOSE", "LABEL", "ONBUILD", "STOPSIGNAL", "USER",
     "VOLUME", "WORKDIR"}
WithoutVariables == {"RUN", "CMD", "ENTRYPOINT", "FROM", "MAINTAINER"}

\* The arguments args with every word of them expanded over env.
Replaced(args, env) ==
    CASE args.t = "text" -> processWord(args.v, env).result
      [] args.t = "texts" -> [i \in 1..Len(args.v) |-> processWord(args.v[i], env).result]
      [] args.t = "obj" ->
            [i \in 1..Len(args.v) |-> <<args.v[i][1], processWord(args.v[i][2], env).result>>]
      [] OTHER -> args.v

\* The arguments of instruction c as they are written, a shell command
\* being given to /bin/sh -c.
Unexpanded(c) ==
    IF c.name \in {"RUN", "CMD", "ENTRYPOINT"} /\ IsString(c.args)
    THEN <<"/bin/sh", "-c", IF c.args.t = "text" THEN Str(c.args.v) ELSE c.args.v>>
    ELSE c.args.v

\* The instruction as the Dockerfile has it.
Written(raw) == Instructions[CHOOSE k \in DOMAIN Instructions : Instructions[k].raw = raw]

LastThree(q) == SubSeq(q, Len(q) - 2, Len(q))

\* The arguments that the preFn of the instruction leaves for args: those of
\* EXPOSE in lower case.
LeftByPreFn(name, args) ==
    IF name = "EXPOSE" THEN [i \in 1..Len(args) |-> toLowerCase(args[i])] ELSE args

\* C22: the variables of an instruction's arguments are replaced iff the
\* instruction is one of ADD, ARG, COPY, ENV, EXPOSE, LABEL, ONBUILD,
\* STOPSIGNAL, USER, VOLUME, WORKDIR; the arguments of RUN, CMD, ENTRYPOINT,
\* FROM and MAINTAINER reach the hook, the run task and the cache key as
\* they are written.
C22_WhereVariablesApply ==
    /\ [][(pc = "preStep" /\ pc' = "checkCache")
             => cmd'.args.v = IF cmd.name \in WithVariables
                              THEN LeftByPreFn(cmd.name, Replaced(cmd.args, MergedEnv))
                              ELSE Unexpanded(cmd)]_vars
    /\ [](builder.commandType = "build"
             => /\ \A i \in 1..Len(builder.layers) :
                      Let(builder.layers[i], LAMBDA layer :
                          /\ layer.cmd.name \in WithoutVariables
                                => layer.cmd.args.v = Unexpanded(Written(layer.cmd.raw))
                          /\ (layer.cmd.name = "RUN" /\ ~layer.cmd.ctx.isCached)
                                => LastThree(Val(Val(layer.image.container_config).Cmd))
                                      = Unexpanded(Written(layer.cmd.raw))
                          /\ (layer.cmd.name = "CMD" /\ ~layer.cmd.ctx.isCached)
                                => layer.image.config.Cmd
                                      = Some(Unexpanded(Written(layer.cmd.raw))))
                /\ \A i \in 1..Len(builder.emitted) :
                      (builder.emitted[i].ev = "task" /\ builder.emitted[i].type = "run")
                          => \E k \in DOMAIN Instructions :
                                 /\ Instructions[k].name = "RUN"
                                 /\ builder.emitted[i].message
                                       = JoinStr(Unexpanded(Instructions[k]), " "))

\* 'RUN $n' was run and stored after 'ARG n=1', or after 'WORKDIR /$n' was
\* replaced with the build-arg of the command line.
C22_Witness ==
    /\ Len(builder.layers) = 3
    /\ builder.layers[3].cmd.raw = "RUN $n"
    /\ \/ /\ builder.layers[2].cmd.raw = "ARG n=1"
          /\ Val(builder.layers[3].image.container_config).Cmd
                = Some(<<"|1", "n=1", "/bin/sh", "-c", "$n">>)
       \/ /\ builder.layers[2].cmd.raw = "WORKDIR /$n"
          /\ builder.layers[2].cmd.args.v = <<"/">>
          /\ Val(builder.layers[3].image.container_config).Cmd = Some(<<"/bin/sh", "-c", "$n">>)

(***************************************************************************)
(* C23                                                                     *)
(***************************************************************************)
\* config.Env, an array.
ConfigEnv ==
    IF IsNull(builder.image.config.Env) THEN <<>> ELSE Val(builder.image.config.Env)

\* What a reference to name is to expand to: the value config.Env has for
\* it, and the build-arg's only when config.Env has no entry for it.
Visible(name) ==
    IF \E i \in 1..Len(ConfigEnv) : KeyOf(ConfigEnv[i]) = name
    THEN FirstValue(ConfigEnv, name)
    ELSE IF Has(builder.buildArgsPlusDefaults, Str(name))
            /\ ~IsNull(Get(builder.buildArgsPlusDefaults, Str(name)))
    THEN Val(Get(builder.buildArgsPlusDefaults, Str(name)))
    ELSE <<>>

\* C23: the arguments are expanded over config.Env merged with the
\* effective build-args: a key that both define expands to the value of
\* config.Env, and a build-arg is seen only when config.Env has no entry for
\* its key.
C23_EnvWinsOverArg ==
    [][pc = "preStep"
          => /\ cmd.args.v \in {<<"/", "$", "n">>, <<"/", "$", "{", "n", "}">>}
                 => pc' = "checkCache" /\ cmd'.args.v = <<"/">> \o Visible(<<"n">>)
             /\ cmd.args.v = <<"/", "$", "q", "$", "n">>
                 => /\ pc' = "checkCache"
                    /\ cmd'.args.v = <<"/">> \o Visible(<<"q">>) \o Visible(<<"n">>)]_vars

\* $n was replaced where config.Env and the build-args both define n.
C23_Witness ==
    /\ pc = "checkCache"
    /\ cmd.raw = "WORKDIR /$n"
    /\ builder.image.config.Env = Some(<< <<"n", "=", "1">> >>)
    /\ Has(builder.buildArgsPlusDefaults, "n")
    /\ Get(builder.buildArgsPlusDefaults, "n") = Some(<<"5">>)
    /\ cmd.args.v = <<"/", "1">>

(***************************************************************************)
(* C24                                                                     *)
(***************************************************************************)
\* The instructions that are not to follow ONBUILD, nor to be triggers.
NotTriggers == {"ONBUILD", "FROM", "MAINTAINER"}

\* The trigger runOnBuildTriggers is about to replay is one of them.
BadTrigger ==
    /\ pc = "triggers"
    /\ triggers # <<>>
    /\ Len(parseLine(Head(triggers))) = 1
    /\ parseLine(Head(triggers))[1].name \in NotTriggers

\* C24: an ONBUILD instruction whose embedded instruction is ONBUILD, FROM
\* or MAINTAINER is rejected, the build fails and nothing is pushed onto
\* config.OnBuild; and a trigger of the base image that is an ONBUILD, FROM
\* or MAINTAINER instruction is rejected instead of being run as a step.
C24_TriggersRejected ==
    /\ [][BadTrigger
             => /\ pc' = "ended"
                /\ builder'.emitted[Len(builder'.emitted)].ev = "end"
                /\ builder'.emitted[Len(builder'.emitted)].message # NoErr
                /\ builder'.stepNo = builder.stepNo]_vars
    /\ [](\A i \in 1..Len(builder.layers) :
             builder.layers[i].cmd.name = "ONBUILD"
                 => builder.layers[i].cmd.args.v.name \notin NotTriggers)

(***************************************************************************)
(* C25                                                                     *)
(***************************************************************************)
\* C25: once the host has answered a run task with no error and a non-zero
\* exitCode the build is over: all the builder has emitted since is 'end'
\* with an error that holds the command and the exit code, so no later
\* instruction runs, and no layer is stored for the RUN step.
C25_ExitCodeEndsBuild ==
    \A k \in 1..Len(calls) :
        (calls[k].type = "run" /\ calls[k].err = NoErr /\ calls[k].exitCode # 0)
            => /\ pc = "ended"
               /\ pending = <<>>
               /\ builder.emitted =
                      SubSeq(builder.emitted, 1, calls[k].at)
                          \o <<Event("end", "",
                                     "The command '" \o builder.emitted[calls[k].at].message
                                        \o "' returned a non-zero code: "
                                        \o ToString(calls[k].exitCode))>>
               /\ Len(builder.layers) = builder.stepNo
               /\ cmd.name = "RUN"

\* A RUN that follows a stored RUN has returned a non-zero code while
\* instructions were left to run.
C25_Witness ==
    /\ \E k \in 1..Len(calls) :
          calls[k].type = "run" /\ calls[k].err = NoErr /\ calls[k].exitCode # 0
    /\ \E i \in 1..Len(builder.layers) : builder.layers[i].cmd.name = "RUN"
    /\ cmdIdx + 1 < Len(allCommands)

(***************************************************************************)
(* C26                                                                     *)
(***************************************************************************)
\* The characters of the names of build-args, in the order of their codes.
CharOrder ==
    <<"F", "H", "N", "O", "P", "R", "S", "T", "X", "Y", "_",
      "f", "h", "n", "o", "p", "q", "r", "s", "t", "x", "y">>
CharCode(ch) == CHOOSE i \in 1..Len(CharOrder) : CharOrder[i] = ch

\* a < b for two strings given by their characters.
RECURSIVE Less(_, _)
Less(a, b) ==
    IF b = <<>> THEN FALSE
    ELSE IF a = <<>> THEN TRUE
    ELSE IF Head(a) = Head(b) THEN Less(Tail(a), Tail(b))
    ELSE CharCode(Head(a)) < CharCode(Head(b))

\* The names of keys in sorted order.
RECURSIVE Sorted(_)
Sorted(keys) ==
    IF keys = <<>> THEN <<>>
    ELSE LET names == {keys[i] : i \in 1..Len(keys)}
             least == CHOOSE k \in names :
                          \A o \in names : o = k \/ Less(Chars(k), Chars(o))
         IN <<least>> \o Sorted(SelectSeq(keys, LAMBDA k : k # least))

\* The build-args with a value that is not null.
WithValue(args) == SelectSeq(Keys(args), LAMBDA k : ~IsNull(Get(args, k)))

\* C26: the nopCmd stored with an executed RUN step is the shell-wrapped
\* command alone when no build-arg has a non-null value, and otherwise '|N',
\* the N entries 'K=V' of the build-args with non-null values in sorted
\* order, and the shell-wrapped command.
C26_NopCmdOfRun ==
    [][(pc = "postStep" /\ cmd.name = "RUN" /\ ~cmd.ctx.isCached)
          => LET keys == Sorted(WithValue(builder.buildArgs))
                 stored == builder'.layers[Len(builder'.layers)].image.container_config
             IN Val(stored).Cmd =
                   Some((IF keys = <<>> THEN <<>>
                         ELSE <<"|" \o ToString(Len(keys))>>
                                 \o ArgEntries(keys, builder.buildArgs))
                        \o cmd.args.v)]_vars

(***************************************************************************)
(* C27                                                                     *)
(***************************************************************************)
\* The directories of the extracted context.
ContextDirs(f) == {p \in DOMAIN f : f[p].t = "dir" /\ p[1] = <<"c">>}

\* The filesystems with the files of f, whose directories of the context are
\* listed in another order.
Enumerations(f) ==
    {[p \in DOMAIN f |-> IF p \in other THEN [f[p] EXCEPT !.rev = ~@] ELSE f[p]] :
        other \in SUBSET ContextDirs(f)}

\* C27: the hash string of an ADD or COPY step (file:, dir: or multi:) is
\* the same for the same Dockerfile and context in whatever order the
\* filesystem lists the entries of the directories of the context.
C27_HashOfContextOnly ==
    (pc = "checkCache" /\ cmd.name \in {"ADD", "COPY"})
        => \A f \in Enumerations(fs) :
              Let(getCopyInfo(builder, f, cmd), LAMBDA info :
                  /\ info.err = ""
                  /\ generateHashForCopyInfos(info.copyInfos)
                        = generateHashForCopyInfos(cmd.ctx.copyInfos))

(***************************************************************************)
(* C28                                                                     *)
(***************************************************************************)
\* env has an entry for the name: the name alone, or the name, '=' and a
\* value.
Defines(env, name) ==
    \E i \in 1..Len(env) : env[i] = name \/ StartsWith(env[i], Append(name, "="))

\* The entries of a sequence.
Entries(seq) == {seq[i] : i \in 1..Len(seq)}

\* A step emits a run task: the task, with the config and the build-args it
\* is emitted with.
EmitsRunTask ==
    /\ Len(builder'.emitted) > Len(builder.emitted)
    /\ builder'.emitted[Len(builder'.emitted)].type = "run"
TheRunTask == builder'.emitted[Len(builder'.emitted)]

\* The entries K=V of the build-args of args that have a value and that
\* neither config.Env nor the default PATH entry defines.
ArgEntriesNotIn(env, args) ==
    {Chars(k) \o <<"=">> \o Val(Get(args, k)) :
        k \in {a \in KeySet(args) : ~IsNull(Get(args, a)) /\ ~Defines(env, Chars(a))}}

\* C28 as it is stated: the env of a run task has an entry for every
\* effective build-arg (declared, or known by default) that config.Env does
\* not define.
C28_EnvOfEffectiveArgs ==
    [][EmitsRunTask
          => \A k \in KeySet(builder.buildArgsPlusDefaults) :
                Defines(EnvOrEmpty(builder.image.config), Chars(k))
                    \/ Defines(TheRunTask.env, Chars(k))]_vars

\* C28: the env of a run task consists of the entries of config.Env, the
\* default PATH entry when config.Env has no entry that starts with 'PATH=',
\* and 'K=V' for each build-arg K that has a value (it was given on the
\* command line and is declared or known by default, or it is declared with
\* a default value) and that none of these entries defines; a build-arg
\* without a value adds nothing.  Its workdir is config.WorkingDir, or '/'
\* when that is empty, and its user is config.User.
C28_RunTask ==
    [][EmitsRunTask
          => LET config == builder.image.config
                 envAndPath == EnvOrEmpty(config)
                                  \o (IF Defines(EnvOrEmpty(config), <<"P", "A", "T", "H">>)
                                      THEN <<>> ELSE <<DefaultPath>>)
                 args == ArgEntriesNotIn(envAndPath, builder.buildArgs)
             IN /\ Entries(TheRunTask.env) = Entries(envAndPath) \cup args
                /\ Len(TheRunTask.env) = Len(envAndPath) + Cardinality(args)
                /\ TheRunTask.workdir
                      = (IF config.WorkingDir = <<>> THEN <<"/">> ELSE config.WorkingDir)
                /\ TheRunTask.user = config.User]_vars

\* A run task is there for a config with Env, where a build-arg has a value
\* and no entry in config.Env, another has a value and an entry in
\* config.Env, and a third has no value.
C28_Witness ==
    /\ pc = "await"
    /\ builder.emitted[Len(builder.emitted)].type = "run"
    /\ EnvOrEmpty(builder.image.config) = << <<"H", "T", "T", "P", "_", "P", "R", "O", "X", "Y", "=", "e">> >>
    /\ Has(builder.buildArgs, "HTTP_PROXY")
    /\ Has(builder.buildArgs, "FTP_PROXY")
    /\ \E k \in KeySet(builder.buildArgsPlusDefaults) : ~Has(builder.buildArgs, k)
    /\ builder.emitted[Len(builder.emitted)].env
          = EnvOrEmpty(builder.image.config)
              \o <<DefaultPath, <<"F", "T", "P", "_", "P", "R", "O", "X", "Y", "=", "f">> >>

(***************************************************************************)
(* C29                                                                     *)
(***************************************************************************)
\* The number a string of digits stands for.
RECURSIVE Number(_)
Number(digits) ==
    IF digits = <<>> THEN 0
    ELSE 10 * Number(DropLast(digits, 1)) + DigitValue(digits[Len(digits)])

\* The place of the first ch in s, and Len(s) + 1 when there is none.
Place(s, ch) == CHOOSE i \in 1..(Len(s) + 1) :
                    /\ i = Len(s) + 1 \/ s[i] = ch
                    /\ \A j \in 1..(i - 1) : s[j] # ch

\* An argument 'b-e', 'b-e/proto', 'port' or 'port/proto' of EXPOSE: its
\* port or range, its protocol, and for a range its two ends.
PortOf(arg) == SubSeq(arg, 1, Place(arg, "/") - 1)
ProtoOf(arg) == IF Place(arg, "/") > Len(arg) THEN "tcp" ELSE Str(SliceFrom(arg, Place(arg, "/") + 1))
IsRange(arg) == Place(PortOf(arg), "-") <= Len(PortOf(arg))
BeginOf(arg) == Number(SubSeq(PortOf(arg), 1, Place(PortOf(arg), "-") - 1))
EndOf(arg) == Number(SliceFrom(PortOf(arg), Place(PortOf(arg), "-") + 1))

\* The ports of an argument.
PortsOf(arg) ==
    IF IsRange(arg) THEN {ToString(i) \o "/" \o ProtoOf(arg) : i \in BeginOf(arg)..EndOf(arg)}
    ELSE {Str(PortOf(arg)) \o "/" \o ProtoOf(arg)}

\* The keys of config.ExposedPorts.
Exposed(b) ==
    IF IsNull(b.image.config.ExposedPorts) THEN {} ELSE KeySet(Val(b.image.config.ExposedPorts))

\* C29: an EXPOSE step adds to config.ExposedPorts the ports b..e of each
\* argument 'b-e' and the port of each other argument, with the protocol of
\* the argument or 'tcp', and nothing else; when an argument has e < b the
\* step fails and config.ExposedPorts is as it was before the instruction.
C29_Expose ==
    [][(pc = "actualStep" /\ cmd.name = "EXPOSE" /\ ~isAlreadyAvailable(cmd))
          => LET args == {cmd.args.v[i] : i \in 1..Len(cmd.args.v)}
             IN IF \E arg \in args : IsRange(arg) /\ EndOf(arg) < BeginOf(arg)
                THEN /\ pc' = "ended"
                     /\ builder'.image.config.ExposedPorts = builder.image.config.ExposedPorts
                ELSE /\ pc' = "postStep"
                     /\ Exposed(builder') = Exposed(builder) \cup UNION {PortsOf(arg) : arg \in args}
                     /\ \A arg \in args :
                           IsRange(arg) => Cardinality(PortsOf(arg)) = EndOf(arg) - BeginOf(arg) + 1]_vars

\* A build has exposed a range and a port with a protocol, and has failed
\* at a later EXPOSE with a range whose end is before its beginning.
C29_Witness ==
    /\ pc = "ended"
    /\ cmd.name = "EXPOSE"
    /\ builder.emitted[Len(builder.emitted)].message = "Invalid containerPort: 10-9"
    /\ Exposed(builder) = {"8000/tcp", "8001/tcp", "8002/tcp", "2375/udp"}

(***************************************************************************)
(* C30                                                                     *)
(***************************************************************************)
\* The keys of config.Volumes.
Volumes(b) == IF IsNull(b.image.config.Volumes) THEN {} ELSE KeySet(Val(b.image.config.Volumes))

\* C30: a VOLUME step with an entry that is the empty string, at whatever
\* place of its list, fails and adds nothing to config.Volumes; a VOLUME
\* step with no such entry adds every entry to config.Volumes.
C30_Volume ==
    [][(pc = "actualStep" /\ cmd.name = "VOLUME" /\ ~isAlreadyAvailable(cmd))
          => IF \E i \in 1..Len(cmd.args.v) : cmd.args.v[i] = <<>>
             THEN /\ pc' = "ended"
                  /\ builder'.image.config.Volumes = builder.image.config.Volumes
             ELSE /\ pc' = "postStep"
                  /\ Volumes(builder')
                        = Volumes(builder) \cup {Str(cmd.args.v[i]) : i \in 1..Len(cmd.args.v)}]_vars

(***************************************************************************)
(* C31                                                                     *)
(***************************************************************************)
\* A path is normalized: no piece of it is '.' or '..', and none but the
\* first of an absolute path is empty; and it does not end with '/' unless
\* it is '/'.
Normalized(path) ==
    LET pieces == Split(path, "/")
    IN /\ \A i \in 1..Len(pieces) : pieces[i] \notin {<<".">>, <<".", ".">>}
       /\ path # <<"/">> => \A i \in 2..Len(pieces) : pieces[i] # <<>>

\* C31: after WORKDIR steps that start from an empty WorkingDir,
\* config.WorkingDir is normalized and does not end with '/' unless it is
\* '/'; an argument that starts with '/' replaces the value there was, and
\* any other argument is joined onto it.
C31_WorkingDir ==
    /\ [](allCommands \in WorkdirDockerfiles => Normalized(builder.image.config.WorkingDir))
    /\ [][(pc = "actualStep" /\ cmd.name = "WORKDIR" /\ ~isAlreadyAvailable(cmd))
             => LET prev == builder.image.config.WorkingDir
                    arg == cmd.args.v
                    whole == IF arg[1] = "/" \/ prev = <<>> THEN arg
                             ELSE prev \o <<"/">> \o arg
                    pieces == normalizeArray(Split(whole, "/"), whole[1] # "/", <<>>)
                IN Components(builder'.image.config.WorkingDir)
                      = IF pieces = <<>> /\ whole[1] # "/" THEN << <<".">> >> ELSE pieces]_vars

(***************************************************************************)
(* C32                                                                     *)
(***************************************************************************)
\* How many times the builder has said that it serves a step from the cache.
UsingCache(b) ==
    Cardinality({i \in 1..Len(b.emitted) : b.emitted[i].message = " ---> Using cache\n"})

\* C32: cacheLastCmdCached is true when a build starts, becomes false when
\* a step other than FROM misses the cache, and is false from then on; while
\* it is false no step is served from the cache and ' ---> Using cache' is
\* not emitted, whatever existingImages holds.
C32_NoCacheAfterMiss ==
    /\ [](pc = "constructed" => builder.cacheLastCmdCached)
    /\ [][((/\ pc = "checkCache" /\ cmd.name # "FROM" /\ builder.cacheEnabled
             /\ getCachedImage(builder, cmd) = 0)
                => ~builder'.cacheLastCmdCached)
          /\ (~builder.cacheLastCmdCached
                => (/\ ~builder'.cacheLastCmdCached
                    /\ UsingCache(builder') = UsingCache(builder)
                    /\ (pc = "checkCache" => ~cmd'.ctx.isCached)))]_vars

\* A step was served from the cache, a later one missed it, and the step
\* after that is executed though a candidate of existingImages matches it.
C32_Witness ==
    /\ pc = "actualStep"
    /\ cmd.name # "FROM"
    /\ builder.cacheEnabled /\ ~builder.cacheLastCmdCached
    /\ ~cmd.ctx.isCached
    /\ getCachedImage(builder, cmd) # 0
    /\ UsingCache(builder) >= 1

(***************************************************************************)
(* C33                                                                     *)
(***************************************************************************)
\* The builder's steps run to completion once they are scheduled, and the
\* host invokes every callback it was handed: whenever some step of the
\* builder or of the host can be taken, one is taken.
\* Every step moves position: it changes the place in the driver, the index
\* of the instruction, or the number of events, callbacks, triggers or
\* files left to copy.
position ==
    <<pc, cmdIdx, inTriggers, Len(triggers), Len(pending), Len(calls),
      Len(work), Len(builder.emitted), builder.stepNo>>
EveryStepMoves == [][position' # position]_vars
\* The steps that start from an event: a call of the host, a callback of
\* the host, or a callback the builder scheduled itself.
Scheduled ==
    \/ Start
    \/ StartCommit
    \/ CommitStep
    \/ GenerateFinalImage
    \/ ExtractContextCallback
    \/ ReadDockerfile
    \/ CommandBuildStep
    \/ DoCheckCache
    \/ ReprovisionCallback
    \/ ImageReprovisionedCallback
    \/ ExtractedCallback
    \/ RunCallback
    \/ DoPostStep
    \/ RunNextTrigger
    \/ Finish

\* The builder is inside a synchronous stretch of step(): doPreStep,
\* doActualStep or the copying of cmdAdd, which JavaScript runs to its end.
Running == pc \in {"preStep", "actualStep", "copy"}

SpecLive == Init /\ [][Next]_vars /\ WF_position(Scheduled) /\ []<>~Running

\* How many 'end' events the builder has emitted.
Ends(b) == Cardinality({i \in 1..Len(b.emitted) : b.emitted[i].ev = "end"})

\* C33: when the host invokes every callback, every build eventually emits
\* 'end', emits it once only, and emits no event after it: 'end' is the
\* last of the emitted events from then on.
C33_EndExactlyOnce ==
    /\ <>(builder.commandType = "build" => Ends(builder) = 1)
    /\ [](Ends(builder) <= 1)
    /\ [](Ends(builder) = 1 => builder.emitted[Len(builder.emitted)].ev = "end")

(***************************************************************************)
(* C34                                                                     *)
(***************************************************************************)
TooManySymlinks(path) == "too many symlinks in desination path: " \o Str(path)

\* The greatest number of activations of getRealpathFromRootDir that are on
\* the stack at once while m runs to its end.
RECURSIVE realpathNesting(_, _, _, _)
realpathNesting(f, outsideRootDir, loopCount, m) ==
    IF m.stack = <<>> THEN 0
    ELSE Let(realpathNesting(f, outsideRootDir, loopCount,
                             realpathTurn(f, outsideRootDir, loopCount, m)),
             LAMBDA later : IF Len(m.stack) > later THEN Len(m.stack) ELSE later)

\* The path getRealpathFromRootDir resolves next when it finds the symbolic
\* link at place: the link's target, from the link's directory when it is
\* relative.
LinkPath(f, place) ==
    Let(NodeAt(f, place).to, LAMBDA to :
        IF to[1] # "/" THEN pathJoin(HostPath(SubSeq(place, 2, Len(place) - 1)), to) ELSE to)

\* err is the 'too many symlinks' error for one of the links of f.
IsTooManySymlinks(f, err) ==
    \E place \in LinkPlaces :
        NodeAt(f, place).t = "link" /\ err = TooManySymlinks(LinkPath(f, place))

\* The path the last resolution started from: the target as it is for a
\* Dockerfile name, and from the WorkingDir for a relative container path.
ResolvedFrom ==
    IF result.root = containerRootDir /\ result.target[1] # "/"
    THEN pathJoin(IF builder.image.config.WorkingDir = <<>> THEN <<"/">>
                  ELSE builder.image.config.WorkingDir,
                  result.target)
    ELSE result.target

\* A symbolic link at /z/t that leads to itself.
SelfLink == NodeAt(fs, << <<"z">>, <<"t">> >>) \in {Link(<<"t">>), Link(<<".", ".", "/", "t", "/">>)}

\* C34: getRealpathFromRootDir ends for every target and every layout of
\* symbolic links: never more than 21 activations (loopCount 0 to 20) are
\* nested, a resolution that goes beyond them ends with the 'too many
\* symlinks' error, a resolution that stays within them does not, and a
\* link that leads to itself gives that error.
C34_RealpathTerminates ==
    result.target # <<>>
       => Let(realpathNesting(fs, result.root, 0,
                              [stack |-> <<Activation(ResolvedFrom)>>, r |-> Return(<<>>)]),
              LAMBDA nesting :
                 /\ nesting <= MaxLoopCount + 1
                 /\ IsTooManySymlinks(fs, result.err) => nesting = MaxLoopCount + 1
                 /\ nesting <= MaxLoopCount => ~IsTooManySymlinks(fs, result.err)
                 /\ (SelfLink /\ result.target \in {<<"/", "t">>, <<"/", "t", "/", "x">>})
                       => result.err = TooManySymlinks(LinkPath(fs, << <<"z">>, <<"t">> >>)))

\* A target was resolved through the link at /z/t that leads to /u while the
\* link at /z/u leads back to /t, and the resolution gave up.
C34_Witness ==
    /\ result.target = <<"/", "t", "/", "x">>
    /\ NodeAt(fs, << <<"z">>, <<"t">> >>) = Link(<<"u">>)
    /\ NodeAt(fs, << <<"z">>, <<"u">> >>) = Link(<<"t">>)
    /\ IsTooManySymlinks(fs, result.err)

(***************************************************************************)
(* C35                                                                     *)
(***************************************************************************)
\* C35: processWord returns a word without $, quote and backslash as it
\* is, whatever the env list, so the arguments of a step whose raw text has
\* none of these characters are what replacing its variables would give.
C35_PlainWordUnchanged ==
    /\ [](~HasSpecial(cmd.args.v)
            => processWord(cmd.args.v, MergedEnv) = Res(cmd.args.v, Len(cmd.args.v)))
    /\ [][(pc = "preStep" /\ ~rawSearch(cmd))
            => /\ pc' = "checkCache"
               /\ cmd'.args.v = processWord(cmd.args.v, MergedEnv).result]_vars

\* The step of a word with a closing brace and none of the four characters
\* is past doPreStep, with an env list that defines a variable.
C35_Witness ==
    /\ pc = "checkCache"
    /\ cmd.args.v = <<"/", "a", "}", "b">>
    /\ MergedEnv # <<>>

(***************************************************************************)
(* C36                                                                     *)
(***************************************************************************)
\* No two entries of env have the same key.
OneEntryPerKey(env) ==
    \A i, j \in 1..Len(env) : KeyOf(env[i]) = KeyOf(env[j]) => i = j

\* The entry an ENV instruction with arguments args makes for key, if any.
Assigned(args, key) ==
    {Chars(args[k][1]) \o <<"=">> \o args[k][2] : k \in {k \in 1..Len(args) : Chars(args[k][1]) = key}}

\* C36: starting from an Env without duplicate keys, Env never holds two
\* entries of one key; an ENV step puts the new entry of a key that has an
\* entry in that entry's place, leaves the entries of all other keys as and
\* where they are, a key that begins with the name of the key set included,
\* and appends the entries of new keys.
C36_OneEntryPerKey ==
    /\ [](allCommands \in EnvDockerfiles => OneEntryPerKey(EnvOrEmpty(builder.image.config)))
    /\ [][(/\ pc = "actualStep" /\ cmd.name = "ENV" /\ ~isAlreadyAvailable(cmd)
           /\ OneEntryPerKey(EnvOrEmpty(builder.image.config)))
            => LET old == EnvOrEmpty(builder.image.config)
                   new == EnvOrEmpty(builder'.image.config)
                   args == cmd.args.v
                   fresh == SelectSeq(args, LAMBDA a :
                                \A i \in 1..Len(old) : KeyOf(old[i]) # Chars(a[1]))
               IN /\ OneEntryPerKey(new)
                  /\ Len(new) = Len(old) + Len(fresh)
                  /\ \A i \in 1..Len(old) :
                        IF Assigned(args, KeyOf(old[i])) = {} THEN new[i] = old[i]
                        ELSE new[i] \in Assigned(args, KeyOf(old[i]))
                  /\ \A k \in 1..Len(fresh) :
                        new[Len(old) + k] = Chars(fresh[k][1]) \o <<"=">> \o fresh[k][2]]_vars

\* 'ENV n=2' has replaced n=1 behind nq=3, which is as it was.
C36_Witness ==
    /\ pc = "postStep"
    /\ cmd.raw = "ENV n=2"
    /\ builder.image.config.Env = Some(<< <<"n", "q", "=", "3">>, <<"n", "=", "2">> >>)

(***************************************************************************)
(* C37                                                                     *)
(***************************************************************************)
\* The labels of the image stored as layer i.
LayerLabels(i) ==
    Let(builder.layers[i].image.config.Labels, LAMBDA l : IF IsNull(l) THEN EmptyMap ELSE Val(l))

\* Layer i or a layer before it is the layer of a LABEL instruction that
\* sets key.
SetByDockerfile(i, key) ==
    \E j \in 1..i : /\ builder.layers[j].cmd.name = "LABEL"
                    /\ Has(builder.layers[j].cmd.args.v, key)

\* C37: in a successful build with labels on the command line, the last
\* layer has every one of them with the value of the command line, and a
\* layer before the last has one of them only if the Dockerfile set it.
C37_CliLabelsOnLastLayer ==
    (Succeeded /\ builder.commandType = "build" /\ builder.cliLabels # EmptyMap)
       => LET last == Len(builder.layers)
          IN \A key \in KeySet(builder.cliLabels) :
                /\ Has(LayerLabels(last), key)
                /\ Get(LayerLabels(last), key) = Get(builder.cliLabels, key)
                /\ \A i \in 1..(last - 1) :
                      Has(LayerLabels(i), key) => SetByDockerfile(i, key)

(***************************************************************************)
(* C38                                                                     *)
(***************************************************************************)
\* The instruction as doPreStep of a build hands it to doActualStep: its
\* variables replaced, a shell form made an array, the arguments of EXPOSE
\* in lower case.
AfterPreStep(b, c) ==
    Let(IF cmdAllowsVariables(c) THEN updateCommandVariables(b, c).result ELSE c.args.v,
        LAMBDA args :
        Let(IF c.name \in {"CMD", "ENTRYPOINT", "RUN"}
            THEN fixShellCommandArguments([c EXCEPT !.args.v = args])
            ELSE [c EXCEPT !.args.v = args],
            LAMBDA c0 :
                IF c.name = "EXPOSE" THEN [c0 EXCEPT !.args.v = cmdExposePreFn(c0)] ELSE c0))

\* C38: a change line that docker commit allows is applied without an
\* exception, and the config it leaves is the config the step of a build
\* with the same instruction leaves.
C38_CommitAsBuild ==
    [][(pc = "commit" /\ cmdIdx < Len(allCommands))
          => /\ pc' # "thrown"
             /\ builder'.image.config
                   = cmdHandler(builder,
                                AfterPreStep(builder, Instructions[allCommands[cmdIdx + 1]]))
                        .image.config]_vars

(***************************************************************************)
(* C39                                                                     *)
(***************************************************************************)
\* b holds value for name, both in buildArgs and in buildArgsPlusDefaults.
Holds(b, name, value) ==
    /\ Has(b.buildArgs, name) /\ Get(b.buildArgs, name) = value
    /\ Has(b.buildArgsPlusDefaults, name) /\ Get(b.buildArgsPlusDefaults, name) = value

\* b holds for name the value that the command line of the builds with
\* variables gives it, and that no Dockerfile gives it.
HoldsCliValue(b, name) == Has(VarCliArgs, name) /\ Holds(b, name, Get(VarCliArgs, name))

\* C39: the ARG step that declares a name given on the command line puts
\* the value of the command line into buildArgs and buildArgsPlusDefaults,
\* and that value is held from then on, whatever later ARG steps declare.
C39_CliValueOverrides ==
    [][/\ \A name \in KeySet(builder.cliBuildArgs) :
             (/\ pc = "actualStep" /\ cmd.name = "ARG"
              /\ ~Has(builder'.cliBuildArgs, name))
                => Holds(builder', name, Get(builder.cliBuildArgs, name))
       /\ \A name \in KeySet(VarCliArgs) :
             HoldsCliValue(builder, name) => HoldsCliValue(builder', name)]_vars
====
